---- MODULE Spec2Model ----
(***************************************************************************)
(* Model of the data-ingestion service: the ingestion engine               *)
(* (DataIngestionService), its state store adapter (RedisService), its bus *)
(* publisher (KafkaProducerService) and the two ingress paths (the HTTP    *)
(* handlers of app/main.py and the MQTT data handler).                     *)
(*                                                                         *)
(* Collaborators outside the process (the Redis server, the Kafka broker,  *)
(* the device registry) are the environment: every call to them takes its  *)
(* outcome (success or fault) as an input of the action that makes it.     *)
(***************************************************************************)
EXTENDS Integers, Sequences, FiniteSets, TLC

VARIABLES
    now,        \* the clock, in seconds (datetime.utcnow())
    kafkaUp,    \* KafkaProducerService.is_connected
    redisUp,    \* RedisService.is_connected
    mqttEngine, \* MQTTService.ingestion_service is set
    redis,      \* the keys of the Redis server the service writes
    registry,   \* the device ids the device registry has a record for
    lookups,    \* per device id: remote directory lookups issued so far
    cachedAt,   \* per device id: when a looked-up record was last cached (-1: never)
    tasks,      \* background tasks added by HTTP handlers, not yet run
    nreq,       \* ingestion requests received so far
    faults,     \* calls to a collaborator that have failed so far
    batch,      \* the /ingest/batch call in progress
    last,       \* what the most recent handler invocation did
    alertIn,    \* AlertSpec: the readings handed to the alert evaluation
    alertOut,   \* AlertSpec: what the evaluation produced
    alertInfo,  \* AlertSpec: the thresholds of the device context handed to it
    mqtt,       \* MQTTService and the startup/shutdown of the process
    conc,       \* ConcSpec: the process_data invocations in progress
    db,         \* RegistrySpec: the devices table of the device registry
    cal,        \* DaySpec: the UTC day and the readings ingested during it
    ks          \* CleanupSpec: the counter keys the store holds

vars == <<now, kafkaUp, redisUp, mqttEngine, redis, registry, lookups,
          cachedAt, tasks, batch, nreq, faults, last, alertIn, alertOut,
          alertInfo, mqtt, conc, db, cal, ks>>

(***************************************************************************)
(* Bounds of the model.                                                    *)
(***************************************************************************)
MaxReqs == 2        \* ingestion requests per behaviour
MaxLen == 2         \* readings per request
MaxBatch == 2       \* requests per /ingest/batch call
MaxFaults == 1      \* failed calls to a collaborator per behaviour
MaxTicks == 2       \* clock advances per behaviour
MaxAlertLen == 2    \* AlertSpec: readings per evaluated list

Devices == {"dev-a", "dev-b"}
Registered == {"dev-a"}   \* the devices the registry has a record for
TickStep == 150

(***************************************************************************)
(* Program constants.                                                      *)
(***************************************************************************)
InfoTtl == 300              \* cache_device_info(..., ttl=300)
LastSeenTtl == 86400        \* setex(last_seen, 86400, ...)
ActiveTtl == 300            \* expire("devices:active", 300)
DailyTtl == 604800          \* expire(daily_key, 86400 * 7)
ThresholdMax == 20
ThresholdMin == 2
TempHigh == 50
TempLow == 0
BatteryLow == 10
HTTP_200_OK == 200
HTTP_401_UNAUTHORIZED == 401
HTTP_500_INTERNAL_SERVER_ERROR == 500

kafka_topic_data == "iot-data"
kafka_topic_alerts == "iot-alerts"
kafka_topic_health == "iot-health"
kafka_topic_errors == "iot-errors"

NoExpiry == -1

(***************************************************************************)
(* Readings (schemas DataPoint).  A value is a number or a string that     *)
(* float() cannot parse; numeric = FALSE stands for the latter.            *)
(***************************************************************************)
Reading(m, t, isnum, v) ==
    [metric_name |-> m, data_type |-> t, numeric |-> isnum, value |-> v]

MetricNames == {"temperature", "battery_level"}
DataTypes == {"temperature", "custom"}
Values == {-5, 0, 5, 10, 25, 50, 55}

Readings ==
    {Reading(m, t, TRUE, v) : m \in MetricNames, t \in DataTypes, v \in Values}
    \cup {Reading(m, t, FALSE, 0) : m \in MetricNames, t \in DataTypes}

\* The readings HTTP and MQTT requests of the service model carry.
IngestReadings ==
    {Reading("temperature", "temperature", TRUE, 55),
     Reading("temperature", "temperature", TRUE, 25)}

SeqsUpTo(n, S) == UNION {[1..k -> S] : k \in 0..n}

\* DataIngestionRequest.data: min_items=1 (max_items=1000 is beyond the bound).
RequestData == SeqsUpTo(MaxLen, IngestReadings) \ {<<>>}

(***************************************************************************)
(* Device context.  None (and any falsy value) is NoDevice.                *)
(***************************************************************************)
NoDevice == [device_id |-> "", device_type |-> ""]
DeviceRecord(d) == [device_id |-> d, device_type |-> "sensor"]

(***************************************************************************)
(* Kafka messages.  Every message has the same shape: an envelope or a     *)
(* failure record carries the readings in data, an alert message carries   *)
(* one alert in alerts.                                                    *)
(***************************************************************************)
Msg(topic, key, kind, d, info, data, alerts) ==
    [topic |-> topic, key |-> key, kind |-> kind, device_id |-> d,
     device_info |-> info, data |-> data, alerts |-> alerts]

(***************************************************************************)
(* RedisService.  The store is a record of the keys the service uses:      *)
(*   info[d]       device:<d>:info        (has, exp)                       *)
(*   last_seen[d]  device:<d>:last_seen   (has, ts, exp)                   *)
(*   active        devices:active         (members, exp)                   *)
(*   daily[d]      device:<d>:data_points:<today>  (v, exp)                *)
(*   total[d]      device:<d>:data_points:total                            *)
(*   stats_today   stats:data_points:today                                 *)
(*   stats_total   stats:data_points:total                                 *)
(*   health[d]     device:<d>:health      (has, healthy, exp)              *)
(* Every method returns at once when is_connected is false, and swallows   *)
(* the exception of a failing command: `ok` commands of the method succeed *)
(* and the first failing one ends it (ok = number of its commands: none    *)
(* fails).                                                                 *)
(***************************************************************************)
EmptyStore ==
    [info |-> [d \in Devices |-> [has |-> FALSE, exp |-> NoExpiry]],
     last_seen |-> [d \in Devices |-> [has |-> FALSE, ts |-> 0, exp |-> NoExpiry]],
     active |-> [members |-> {}, exp |-> NoExpiry],
     daily |-> [d \in Devices |-> [v |-> 0, exp |-> NoExpiry]],
     total |-> [d \in Devices |-> 0],
     stats_today |-> 0,
     stats_total |-> 0,
     health |-> [d \in Devices |->
                   [has |-> FALSE, healthy |-> FALSE, exp |-> NoExpiry]]]

\* redis_client.get(device:<d>:info), json.loads: the cached record or None.
\* A store that never returns a cached record: every call goes to the
\* directory.
get_cached_device_info_miss(s, d, ok) == NoDevice

get_cached_device_info(s, d, ok) ==
    IF ~redisUp THEN NoDevice
    ELSE IF ok >= 1 /\ s.info[d].has THEN DeviceRecord(d)
    ELSE NoDevice

\* setex(device:<d>:info, ttl, json.dumps(device_info))
cache_device_info(s, d, ttl, ok) ==
    IF ~redisUp THEN s
    ELSE IF ok >= 1 THEN [s EXCEPT !.info[d] = [has |-> TRUE, exp |-> now + ttl]]
    ELSE s

\* A variant that registers the device as active without writing its
\* last-seen key.
update_device_last_seen_unstamped(s, d, ok) ==
    IF ~redisUp THEN s
    ELSE IF ok >= 2 THEN [s EXCEPT !.active.members = @ \cup {d}]
    ELSE s

\* setex(last_seen), sadd(devices:active), expire(devices:active, 300)
update_device_last_seen(s, d, ok) ==
    IF ~redisUp THEN s
    ELSE
      LET s1 == IF ok >= 1
                THEN [s EXCEPT !.last_seen[d] =
                         [has |-> TRUE, ts |-> now, exp |-> now + LastSeenTtl]]
                ELSE s
          s2 == IF ok >= 2
                THEN [s1 EXCEPT !.active.members = @ \cup {d}]
                ELSE s1
          s3 == IF ok >= 3
                THEN [s2 EXCEPT !.active.exp = now + ActiveTtl]
                ELSE s2
      IN s3

\* A variant that counts requests instead of readings.
increment_device_data_points_by_one(s, d, count, ok) ==
    IF ~redisUp THEN s
    ELSE
      LET s1 == IF ok >= 1 THEN [s EXCEPT !.daily[d].v = @ + 1] ELSE s
          s3 == IF ok >= 3 THEN [s1 EXCEPT !.total[d] = @ + 1] ELSE s1
          s4 == IF ok >= 4 THEN [s3 EXCEPT !.stats_today = @ + 1] ELSE s3
          s5 == IF ok >= 5 THEN [s4 EXCEPT !.stats_total = @ + 1] ELSE s4
      IN s5

\* A variant that writes the batch size with SET instead of adding it with
\* INCRBY.
increment_device_data_points_set(s, d, count, ok) ==
    IF ~redisUp THEN s
    ELSE
      LET s1 == IF ok >= 1 THEN [s EXCEPT !.daily[d].v = count] ELSE s
          s3 == IF ok >= 3 THEN [s1 EXCEPT !.total[d] = count] ELSE s1
          s4 == IF ok >= 4 THEN [s3 EXCEPT !.stats_today = count] ELSE s3
          s5 == IF ok >= 5 THEN [s4 EXCEPT !.stats_total = count] ELSE s4
      IN s5

\* incrby(daily), expire(daily, 7 days), incrby(total), incrby(stats today),
\* incrby(stats total)
increment_device_data_points(s, d, count, ok) ==
    IF ~redisUp THEN s
    ELSE
      LET s1 == IF ok >= 1 THEN [s EXCEPT !.daily[d].v = @ + count] ELSE s
          s2 == IF ok >= 2 THEN [s1 EXCEPT !.daily[d].exp = now + DailyTtl] ELSE s1
          s3 == IF ok >= 3 THEN [s2 EXCEPT !.total[d] = @ + count] ELSE s2
          s4 == IF ok >= 4 THEN [s3 EXCEPT !.stats_today = @ + count] ELSE s3
          s5 == IF ok >= 5 THEN [s4 EXCEPT !.stats_total = @ + count] ELSE s4
      IN s5

\* get(last_seen), get(health): None when the store is not connected or a
\* command fails; is_online when last-seen is less than 5 minutes old.
OnlineWindow == 300

get_device_status(s, d, ok) ==
    IF ~redisUp \/ ~ok
    THEN [found |-> FALSE, has_last_seen |-> FALSE, is_online |-> FALSE,
          has_health |-> FALSE]
    ELSE [found |-> TRUE,
          has_last_seen |-> s.last_seen[d].has,
          is_online |-> s.last_seen[d].has
                        /\ (now - s.last_seen[d].ts) < OnlineWindow,
          has_health |-> s.health[d].has]

\* The Redis server drops a key when its time-to-live has run out.
Live(exp, t) == exp = NoExpiry \/ t < exp

ExpireKeys(s, t) ==
    [s EXCEPT
       !.info = [d \in Devices |->
                   IF Live(s.info[d].exp, t) THEN s.info[d]
                   ELSE [has |-> FALSE, exp |-> NoExpiry]],
       !.last_seen = [d \in Devices |->
                   IF Live(s.last_seen[d].exp, t) THEN s.last_seen[d]
                   ELSE [has |-> FALSE, ts |-> 0, exp |-> NoExpiry]],
       !.active = IF Live(s.active.exp, t) THEN s.active
                  ELSE [members |-> {}, exp |-> NoExpiry],
       !.daily = [d \in Devices |->
                   IF Live(s.daily[d].exp, t) THEN s.daily[d]
                   ELSE [v |-> 0, exp |-> NoExpiry]],
       !.health = [d \in Devices |->
                   IF Live(s.health[d].exp, t) THEN s.health[d]
                   ELSE [has |-> FALSE, healthy |-> FALSE, exp |-> NoExpiry]]]

(***************************************************************************)
(* KafkaProducerService.send_message: False when the producer is not       *)
(* connected or send_and_wait raises; it never raises itself.              *)
(***************************************************************************)
send_message(brokerOk) == kafkaUp /\ brokerOk

(***************************************************************************)
(* DataIngestionService._check_alerts: the evaluation loop.  float() of a  *)
(* value that is no number raises; the handler around the whole function   *)
(* logs it, and then no alert of the list is sent.                         *)
(***************************************************************************)
Alert(metric, value, threshold, severity) ==
    [metric |-> metric, value |-> value, threshold |-> threshold,
     severity |-> severity]

\* A variant of the temperature rule whose upper threshold is inclusive.
TemperatureAlerts_inclusive(p) ==
    IF p.data_type = "temperature"
    THEN IF p.value >= TempHigh
         THEN <<Alert("temperature", p.value, TempHigh, "high")>>
         ELSE IF p.value < TempLow
              THEN <<Alert("temperature", p.value, TempLow, "medium")>>
              ELSE <<>>
    ELSE <<>>

\* if data_point.get("data_type") == "temperature": ...
TemperatureAlerts(p) ==
    IF p.data_type = "temperature"
    THEN IF p.value > TempHigh
         THEN <<Alert("temperature", p.value, TempHigh, "high")>>
         ELSE IF p.value < TempLow
              THEN <<Alert("temperature", p.value, TempLow, "medium")>>
              ELSE <<>>
    ELSE <<>>

\* A variant of the battery rule whose threshold is inclusive.
BatteryAlerts_inclusive(p) ==
    IF p.metric_name = "battery_level"
    THEN IF p.value <= BatteryLow
         THEN <<Alert("battery_level", p.value, BatteryLow, "high")>>
         ELSE <<>>
    ELSE <<>>

\* if data_point.get("metric_name") == "battery_level": ...
BatteryAlerts(p) ==
    IF p.metric_name = "battery_level"
    THEN IF p.value < BatteryLow
         THEN <<Alert("battery_level", p.value, BatteryLow, "high")>>
         ELSE <<>>
    ELSE <<>>

\* float(value) is reached only inside the two rules.
FloatRaises(p) ==
    /\ ~p.numeric
    /\ (p.data_type = "temperature" \/ p.metric_name = "battery_level")

RECURSIVE AlertsOf(_)
AlertsOf(points) ==
    IF points = <<>> THEN <<>>
    ELSE TemperatureAlerts(Head(points)) \o BatteryAlerts(Head(points))
         \o AlertsOf(Tail(points))

\* The alerts the function goes on to send.
check_alerts_list(points) ==
    IF \E i \in 1..Len(points) : FloatRaises(points[i])
    THEN <<>>
    ELSE AlertsOf(points)

(***************************************************************************)
(* DataIngestionService._get_device_info and authenticate_device.          *)
(* env: what the collaborators do during the call                          *)
(*   read   commands of get_cached_device_info that succeed (0..1)         *)
(*   reg    "ok": the registry answers; "fault": timeout, connection error *)
(*          or a response that is not 200 for another reason               *)
(*   write  commands of cache_device_info that succeed (0..1)              *)
(*   seen   commands of update_device_last_seen that succeed (0..3)        *)
(***************************************************************************)
AllAuthEnvs ==
    [read : 0..1, reg : {"ok", "fault"}, write : 0..1, seen : 0..3]

AuthFaults(e) ==
    (IF e.read = 0 THEN 1 ELSE 0) + (IF e.reg = "fault" THEN 1 ELSE 0)
    + (IF e.write = 0 THEN 1 ELSE 0) + (IF e.seen < 3 THEN 1 ELSE 0)

\* The outcomes that can differ for device d in the current state: an outcome
\* of a call that is not made is left at "succeeds".
AuthEnvs(d) ==
    {e \in AllAuthEnvs :
        LET hit == redisUp /\ e.read = 1 /\ redis.info[d].has
            found == ~hit /\ e.reg = "ok" /\ d \in registry
        IN /\ faults + AuthFaults(e) <= MaxFaults
           /\ (~redisUp \/ ~redis.info[d].has) => e.read = 1
           /\ hit => e.reg = "ok"
           /\ (~found \/ ~redisUp) => e.write = 1
           /\ (~(hit \/ found) \/ ~redisUp) => e.seen = 3}

\* GET http://device-registry:8001/devices/<d>
RegistryStatus(d, env) ==
    IF env.reg = "fault" THEN 0
    ELSE IF d \in registry THEN 200
    ELSE 404

\* A variant in which a cache hit writes the record back, which restarts
\* its time-to-live.
get_device_info_refreshing(s, d, env) ==
    LET cached_info == get_cached_device_info(s, d, env.read)
    IN IF cached_info # NoDevice
       THEN [info |-> cached_info,
             store |-> cache_device_info(s, d, InfoTtl, 1),
             looked |-> FALSE, cached |-> FALSE]
       ELSE IF RegistryStatus(d, env) = 200
            THEN [info |-> DeviceRecord(d),
                  store |-> cache_device_info(s, d, InfoTtl, env.write),
                  looked |-> TRUE,
                  cached |-> redisUp /\ env.write >= 1]
            ELSE [info |-> NoDevice, store |-> s, looked |-> TRUE, cached |-> FALSE]

get_device_info(s, d, env) ==
    LET cached_info == get_cached_device_info(s, d, env.read)
    IN IF cached_info # NoDevice
       THEN [info |-> cached_info, store |-> s, looked |-> FALSE, cached |-> FALSE]
       ELSE IF RegistryStatus(d, env) = 200
            THEN [info |-> DeviceRecord(d),
                  store |-> cache_device_info(s, d, InfoTtl, env.write),
                  looked |-> TRUE,
                  cached |-> redisUp /\ env.write >= 1]
            ELSE [info |-> NoDevice, store |-> s, looked |-> TRUE, cached |-> FALSE]

\* The token is not looked at.
authenticate_device(s, token, d, env) ==
    LET r == get_device_info(s, d, env)
    IN IF r.info = NoDevice
       THEN r
       ELSE [r EXCEPT !.store = update_device_last_seen(r.store, d, env.seen)]

(***************************************************************************)
(* DataIngestionService.process_data.                                      *)
(* data: the request dict, [device_id, data, sized]; sized is false when   *)
(* data["data"] is a JSON value len() raises on (MQTT payloads only).      *)
(* env: [pub: the broker accepts the data message, incr: commands of       *)
(* increment_device_data_points that succeed (0..5), alerts: per alert,    *)
(* the broker accepts it, err: the broker accepts the failure record].     *)
(* The result: the send_message calls made, each with its outcome, the     *)
(* store afterwards, and the value returned to the caller.                 *)
(***************************************************************************)
\* The method has no return statement: every path returns None.
PyNone == "None"

Send(m, ok) == [msg |-> m, ok |-> send_message(ok)]

AlertSends(d, info, alerts, oks) ==
    [i \in 1..Len(alerts) |->
        Send(Msg(kafka_topic_alerts, d, "alert", d, info, <<>>, <<alerts[i]>>),
             oks[i])]

\* A variant in which a failing counter update aborts the batch: the alerts
\* are skipped and the failure record goes to the error topic.
process_data_aborting(s, data, info, env) ==
    LET device_id == data.device_id
        data_points == data.data
        envelope == Send(Msg(kafka_topic_data, device_id, "envelope", device_id,
                             info, data_points, <<>>), env.pub)
        failure == Send(Msg(kafka_topic_errors, device_id, "failure",
                            device_id, NoDevice, data_points, <<>>), env.err)
    IN IF ~data.sized \/ ~redisUp \/ env.incr < 5
       THEN [sends |-> <<envelope, failure>>,
             store |-> IF data.sized
                       THEN increment_device_data_points(
                                s, device_id, Len(data_points), env.incr)
                       ELSE s,
             returns |-> PyNone]
       ELSE LET alerts == check_alerts_list(data_points)
            IN [sends |-> <<envelope>>
                            \o AlertSends(device_id, info, alerts, env.alerts),
                store |-> increment_device_data_points(
                              s, device_id, Len(data_points), env.incr),
                returns |-> PyNone]

process_data(s, data, info, env) ==
    LET device_id == data.device_id
        data_points == data.data
        envelope == Send(Msg(kafka_topic_data, device_id, "envelope", device_id,
                             info, data_points, <<>>), env.pub)
    IN IF ~data.sized
       THEN \* len(data_points) raises: the except branch
            [sends |-> <<envelope,
                         Send(Msg(kafka_topic_errors, device_id, "failure",
                                  device_id, NoDevice, data_points, <<>>),
                              env.err)>>,
             store |-> s, returns |-> PyNone]
       ELSE LET alerts == check_alerts_list(data_points)
            IN [sends |-> <<envelope>>
                            \o AlertSends(device_id, info, alerts, env.alerts),
                store |-> increment_device_data_points(
                              s, device_id, Len(data_points), env.incr),
                returns |-> PyNone]

\* The messages the broker accepted, in the order sent.
RECURSIVE Accepted(_)
Accepted(sends) ==
    IF sends = <<>> THEN <<>>
    ELSE (IF Head(sends).ok THEN <<Head(sends).msg>> ELSE <<>>)
         \o Accepted(Tail(sends))

(***************************************************************************)
(* The state machine.                                                      *)
(***************************************************************************)
Request(d, points, sized) == [device_id |-> d, data |-> points, sized |-> sized]

\* `last`: the most recent handler invocation.
\*   op      "ingest", "batch", "task", "mqtt", or the name of another step
\*   dev, n  the device id and the number of readings of the request handled
\*   tokOk   the presented credential is the device's (HTTP)
\*   info    the context authenticate_device returned (NoDevice: none)
\*   readOk, seenOk, incrOk   every command of the store method succeeded
\*   resp    the HTTP status answered (0: no response yet, or no HTTP call)
\*   queued  process_data tasks handed to the response
\*   called  process_data ran in this step
\*   sends   the send_message calls of this step, with their outcomes
\*   looked  authenticate_device issued a remote directory lookup
\*   status  what the lookup answered (200, 404; 0: it failed; -1: no lookup)
\*   seen    commands of update_device_last_seen the store accepted
\*   cachedAt  cachedAt of the device when the call began
\*   data, sized  the readings of the request
\*   before  the store when the call began
\*   health  update_device_health ran in this step
\*   stored  the store accepted the write of update_device_health
\*   raised  the call raised to its caller
\*   stats   the counts get_stats returned
\*   returns what process_data returned ("": it did not run)
NoStats ==
    [total_devices |-> 0, active_devices |-> 0, data_points_today |-> 0,
     data_points_total |-> 0]

Quiet(op) ==
    [op |-> op, dev |-> "", n |-> 0, tokOk |-> FALSE, info |-> NoDevice,
     readOk |-> FALSE, seenOk |-> FALSE, incrOk |-> FALSE, resp |-> 0,
     queued |-> 0, called |-> FALSE, sends |-> <<>>, looked |-> FALSE,
     status |-> -1, seen |-> 0, cachedAt |-> -1, data |-> <<>>,
     sized |-> TRUE, before |-> EmptyStore, health |-> FALSE,
     stored |-> FALSE, raised |-> FALSE, stats |-> NoStats, returns |-> ""]

NotEvaluated == [done |-> FALSE, alerts |-> <<>>]

\* The device context's alert_thresholds: none, or {metric: {max, min}} for
\* one metric.
NoThresholds == [metric |-> "", max |-> 0, min |-> 0]
DeviceThresholds ==
    {NoThresholds, [metric |-> "temperature", max |-> ThresholdMax,
                    min |-> ThresholdMin]}

\* No message has been handled by the subscription ingress.
NoMessage ==
    [topic |-> <<>>, device_id |-> "", message_type |-> "",
     payload |-> [json |-> FALSE, points |-> <<>>, sized |-> TRUE,
                  is_healthy |-> TRUE],
     loop |-> FALSE, scheduled |-> FALSE]

\* MQTTService.__init__, before startup_event.
\*   app      "starting", "up" (startup_event returned), "aborted" (it raised),
\*            "down" (shutdown_event returned)
\*   phase    of MQTTService.start: "none", "created" (its task was created),
\*            "polling", "started" (it returned), "failed" (it raised)
\*   client   self.client is set
\*   looping  the network thread of the client runs (loop_start .. loop_stop)
\*   polls    sleeps of the wait loop of start completed (0 outside the loop)
\*   inflight the _handle_mqtt_message tasks created and not yet run
\*   nmsg     messages delivered to _on_message so far
\*   msg      the message the most recent step received (_on_message) or
\*            handled (_handle_mqtt_message)
\*   subs     the topic patterns the client is subscribed to at the broker
\*            (mqtt.Client() asks for a clean session: they end with the
\*            connection)
NotStarted ==
    [app |-> "starting", phase |-> "none", client |-> FALSE,
     looping |-> FALSE, is_connected |-> FALSE, polls |-> 0,
     inflight |-> <<>>, nmsg |-> 0, msg |-> NoMessage, subs |-> {}]

\* After startup_event: the task of mqtt_service.start() has been created.
Started == [NotStarted EXCEPT !.app = "up", !.phase = "created"]

\* No process_data invocation is in progress (outside ConcSpec).
NoCalls == <<>>
\* The first UTC day of the service; no reading has been ingested.
\*   day      days since the service started
\*   counted  readings handed to process_data during the current day
NoCalendar == [day |-> 0, counted |-> 0]
\* The data-point counter keys of the store (CleanupSpec): none yet.
\*   keys    the device:<id>:data_points:<suffix> keys the store holds
\*   today   the current UTC day, in days since the service started
\*   n       increment_device_data_points calls so far
\*   before  the keys the store held when cleanup_expired_data began
\*   done    the most recent step was cleanup_expired_data
NoKeys == [keys |-> {}, today |-> 0, n |-> 0, before |-> {}, done |-> FALSE]

\* The device registry before any call: an empty devices table.
\*   rows   the rows of the table
\*   next   rows inserted so far (the next row gets the next primary key)
\*   call   the most recent DeviceService call: its arguments, the error it
\*          raised ("": none) and what it returned
\*   clock  timestamps taken so far (datetime.utcnow() of a last_seen write)
NoCall ==
    [op |-> "", device_id |-> "", owner_id |-> "", raised |-> "",
     returned |-> "", api_key |-> [gen |-> FALSE, n |-> 0]]
NoTable == [rows |-> {}, next |-> 0, call |-> NoCall, clock |-> 0]

NoBatch == [active |-> FALSE, tokOk |-> FALSE, items |-> <<>>, pending |-> <<>>]

Init ==
    /\ now = 0
    /\ kafkaUp = TRUE          \* startup_event: kafka_producer.start()
    /\ redisUp = TRUE          \* startup_event: redis_service.connect()
    /\ mqttEngine = FALSE      \* MQTTService.__init__
    /\ redis = EmptyStore
    /\ registry = Registered
    /\ lookups = [d \in Devices |-> 0]
    /\ cachedAt = [d \in Devices |-> -1]
    /\ tasks = <<>>
    /\ batch = NoBatch
    /\ nreq = 0
    /\ faults = 0
    /\ last = Quiet("start")
    /\ alertIn = <<>>
    /\ alertOut = NotEvaluated
    /\ alertInfo = NoThresholds
    /\ mqtt = Started
    /\ conc = NoCalls
    /\ db = NoTable
    /\ cal = NoCalendar
    /\ ks = NoKeys

\* HTTP requests are served between startup_event and shutdown_event.
Serving == kafkaUp /\ redisUp

\* One authenticate_device call and its bookkeeping.
AuthBookkeeping(a, d, env) ==
    /\ faults' = faults + AuthFaults(env)
    /\ redis' = a.store
    /\ lookups' = [lookups EXCEPT ![d] = @ + (IF a.looked THEN 1 ELSE 0)]
    /\ cachedAt' = [cachedAt EXCEPT ![d] = IF a.cached THEN now ELSE @]

\* The except clause of the HTTP handlers catches every Exception, the
\* HTTPException the handler raised itself included, and answers 500.
HandlerRaises(status) == HTTP_500_INTERNAL_SERVER_ERROR

\* A variant that drops the task instead of queueing it.
add_task_dropped(queue, request, device_info) == queue

\* background_tasks.add_task(ingestion_service.process_data, data.dict(), device_info)
add_task(queue, request, device_info) ==
    Append(queue, [data |-> request, info |-> device_info])

\* POST /ingest
ingest_data(d, tokOk, points, env) ==
    LET a == authenticate_device(redis, tokOk, d, env)
        refused == a.info = NoDevice
    IN /\ Serving
       /\ nreq < MaxReqs
       /\ nreq' = nreq + 1
       /\ AuthBookkeeping(a, d, env)
       /\ tasks' = IF refused THEN tasks
                   ELSE add_task(tasks, Request(d, points, TRUE), a.info)
       /\ last' = [Quiet("ingest") EXCEPT
                     !.dev = d, !.n = Len(points), !.tokOk = tokOk,
                     !.info = a.info, !.looked = a.looked, !.before = redis,
                     !.status = IF a.looked THEN RegistryStatus(d, env) ELSE -1,
                     !.seen = IF redisUp THEN env.seen ELSE 0,
                     !.cachedAt = cachedAt[d], !.data = points,
                     !.readOk = redisUp /\ env.read = 1,
                     !.seenOk = redisUp /\ env.seen = 3,
                     !.resp = IF refused THEN HandlerRaises(HTTP_401_UNAUTHORIZED)
                              ELSE HTTP_200_OK,
                     !.queued = IF refused THEN 0 ELSE 1]
       /\ UNCHANGED <<now, kafkaUp, redisUp, mqttEngine, registry, batch,
                      alertIn, alertOut,
                   conc, db, cal, ks>>

\* POST /ingest/batch: one turn of the loop over data_list.  The tasks
\* added so far reach the response only when the handler returns it.
BatchTurn(b, env) ==
    LET item == Head(b.items)
        d == item.device_id
        a == authenticate_device(redis, b.tokOk, d, env)
        refused == a.info = NoDevice
        pending == add_task(b.pending, item, a.info)
        finished == ~refused /\ Len(b.items) = 1
    IN /\ AuthBookkeeping(a, d, env)
       /\ batch' = IF refused \/ finished THEN NoBatch
                   ELSE [b EXCEPT !.items = Tail(@), !.pending = pending]
       /\ tasks' = IF finished THEN tasks \o pending ELSE tasks
       /\ last' = [Quiet("batch") EXCEPT
                     !.dev = d, !.n = Len(item.data), !.tokOk = b.tokOk,
                     !.info = a.info, !.looked = a.looked, !.before = redis,
                     !.status = IF a.looked THEN RegistryStatus(d, env) ELSE -1,
                     !.seen = IF redisUp THEN env.seen ELSE 0,
                     !.cachedAt = cachedAt[d], !.data = item.data,
                     !.readOk = redisUp /\ env.read = 1,
                     !.seenOk = redisUp /\ env.seen = 3,
                     !.resp = IF refused THEN HandlerRaises(HTTP_401_UNAUTHORIZED)
                              ELSE IF finished THEN HTTP_200_OK ELSE 0,
                     !.queued = IF finished THEN Len(pending) ELSE 0]

ingest_batch_data(items, tokOk, env) ==
    /\ Serving
    /\ ~batch.active
    /\ nreq + Len(items) <= MaxReqs
    /\ nreq' = nreq + Len(items)
    /\ BatchTurn([active |-> TRUE, tokOk |-> tokOk, items |-> items,
                  pending |-> <<>>], env)
    /\ UNCHANGED <<now, kafkaUp, redisUp, mqttEngine, registry, alertIn, alertOut, conc, db, cal, ks>>

ingest_batch_next(env) ==
    /\ batch.active
    /\ BatchTurn(batch, env)
    /\ UNCHANGED <<now, kafkaUp, redisUp, mqttEngine, registry, nreq,
                   alertIn, alertOut,
                   conc, db, cal, ks>>

AllProcEnvs(points) ==
    [pub : BOOLEAN, incr : 0..5, err : BOOLEAN,
     alerts : [1..Len(check_alerts_list(points)) -> BOOLEAN]]

ProcFaults(e) ==
    (IF e.pub THEN 0 ELSE 1) + (IF e.incr < 5 THEN 1 ELSE 0)
    + (IF e.err THEN 0 ELSE 1)
    + Cardinality({i \in DOMAIN e.alerts : ~e.alerts[i]})

\* The outcomes that can differ in the current state, as for AuthEnvs.
ProcEnvs(points, sized) ==
    {e \in AllProcEnvs(points) :
        /\ faults + ProcFaults(e) <= MaxFaults
        /\ ~kafkaUp => (e.pub /\ e.err /\ \A i \in DOMAIN e.alerts : e.alerts[i])
        /\ sized => e.err
        /\ (~sized \/ ~redisUp) => e.incr = 5
        /\ ~sized => \A i \in DOMAIN e.alerts : e.alerts[i]
        /\ ~sized => points = <<>>}

\* One process_data call and its bookkeeping.
Processed(op, data, info, env) ==
    LET r == process_data(redis, data, info, env)
    IN /\ faults' = faults + ProcFaults(env)
       /\ redis' = r.store
       /\ last' = [Quiet(op) EXCEPT
                     !.dev = data.device_id, !.n = Len(data.data),
                     !.info = info, !.before = redis,
                     !.data = data.data, !.sized = data.sized,
                     !.incrOk = redisUp /\ env.incr = 5,
                     !.called = TRUE,
                     !.sends = r.sends,
                     !.returns = r.returns]

\* A background task of a response that has been sent.
run_background_task(i, env) ==
    /\ i \in 1..Len(tasks)
    /\ Processed("task", tasks[i].data, tasks[i].info, env)
    /\ tasks' = [j \in 1..(Len(tasks) - 1) |->
                    IF j < i THEN tasks[j] ELSE tasks[j + 1]]
    /\ UNCHANGED <<now, kafkaUp, redisUp, mqttEngine, registry, lookups,
                   cachedAt, batch, nreq, alertIn, alertOut,
                   conc, db, cal, ks>>

\* A data handler that asks the directory about the device first.
handle_data_message_looking_up(d, points, sized, env) ==
    /\ nreq < MaxReqs
    /\ nreq' = nreq + 1
    /\ lookups' = [lookups EXCEPT ![d] = @ + 1]
    /\ IF ~mqttEngine
       THEN /\ last' = [Quiet("mqtt") EXCEPT !.dev = d, !.n = Len(points),
                                            !.data = points, !.sized = sized]
            /\ UNCHANGED <<redis, faults>>
       ELSE Processed("mqtt", Request(d, points, sized), DeviceRecord(d), env)
    /\ UNCHANGED <<now, kafkaUp, redisUp, mqttEngine, registry, cachedAt,
                   tasks, batch, alertIn, alertOut, conc, db, cal, ks>>

\* MQTTService._handle_data_message for a decoded payload of iot/<d>/data.
handle_data_message(d, points, sized, env) ==
    /\ nreq < MaxReqs
    /\ nreq' = nreq + 1
    /\ IF ~mqttEngine
       THEN /\ last' = [Quiet("mqtt") EXCEPT !.dev = d, !.n = Len(points),
                                            !.data = points, !.sized = sized]
            /\ UNCHANGED <<redis, faults, conc, db, cal, ks>>
       ELSE Processed("mqtt", Request(d, points, sized), DeviceRecord(d), env)
    /\ UNCHANGED <<now, kafkaUp, redisUp, mqttEngine, registry, lookups,
                   cachedAt, tasks, batch, alertIn, alertOut,
                   conc, db, cal, ks>>

\* MQTTService.set_ingestion_service
set_ingestion_service ==
    /\ ~mqttEngine
    /\ mqttEngine' = TRUE
    /\ last' = Quiet("set_ingestion_service")
    /\ UNCHANGED <<now, kafkaUp, redisUp, redis, registry, lookups, cachedAt,
                   tasks, batch, nreq, faults, alertIn, alertOut,
                   alertInfo, mqtt,
                   conc, db, cal, ks>>

\* shutdown_event, once the HTTP server has drained its requests:
\* kafka_producer.stop(), then redis_service.disconnect().
shutdown_kafka ==
    /\ kafkaUp
    /\ tasks = <<>>
    /\ ~batch.active
    /\ kafkaUp' = FALSE
    /\ last' = Quiet("shutdown_kafka")
    /\ UNCHANGED <<now, redisUp, mqttEngine, redis, registry, lookups,
                   cachedAt, tasks, batch, nreq, faults, alertIn, alertOut,
                   alertInfo, mqtt,
                   conc, db, cal, ks>>

shutdown_redis ==
    /\ ~kafkaUp
    /\ redisUp
    /\ redisUp' = FALSE
    /\ last' = Quiet("shutdown_redis")
    /\ UNCHANGED <<now, kafkaUp, mqttEngine, redis, registry, lookups,
                   cachedAt, tasks, batch, nreq, faults, alertIn, alertOut,
                   alertInfo, mqtt,
                   conc, db, cal, ks>>

\* The statistics getters of RedisService: 0 when the store is not connected
\* or the command fails.
get_total_devices_count(s, ok) ==
    IF ~redisUp \/ ~ok THEN 0
    ELSE Cardinality({d \in Devices : s.info[d].has})

get_active_devices_count(s, ok) ==
    IF ~redisUp \/ ~ok THEN 0 ELSE Cardinality(s.active.members)

get_data_points_today(s, ok) ==
    IF ~redisUp \/ ~ok THEN 0 ELSE s.stats_today

\* A getter that always answers 0.
get_total_data_points_zero(s, ok) == 0

get_total_data_points(s, ok) ==
    IF ~redisUp \/ ~ok THEN 0 ELSE s.stats_total

StatsFaults(e) ==
    Cardinality({k \in DOMAIN e : ~e[k]})

StatsEnvs ==
    {e \in [devices : BOOLEAN, active : BOOLEAN, today : BOOLEAN,
            total : BOOLEAN] :
        /\ faults + StatsFaults(e) <= MaxFaults
        /\ ~redisUp => StatsFaults(e) = 0}

\* DataIngestionService.get_stats, as GET /stats calls it.
get_stats(env) ==
    /\ faults' = faults + StatsFaults(env)
    /\ last' = [Quiet("get_stats") EXCEPT
                  !.before = redis,
                  !.readOk = (redisUp /\ StatsFaults(env) = 0),
                  !.stats =
                     [total_devices |->
                          get_total_devices_count(redis, env.devices),
                      active_devices |->
                          get_active_devices_count(redis, env.active),
                      data_points_today |->
                          get_data_points_today(redis, env.today),
                      data_points_total |->
                          get_total_data_points(redis, env.total)]]
    /\ UNCHANGED <<now, kafkaUp, redisUp, mqttEngine, redis, registry,
                   lookups, cachedAt, tasks, batch, nreq, alertIn, alertOut,
                   alertInfo, mqtt,
                   conc, db, cal, ks>>

\* Time passes; the Redis server expires keys.
Tick ==
    /\ now < MaxTicks * TickStep
    /\ now' = now + TickStep
    /\ redis' = ExpireKeys(redis, now + TickStep)
    /\ last' = Quiet("tick")
    /\ UNCHANGED <<kafkaUp, redisUp, mqttEngine, registry, lookups, cachedAt,
                   tasks, batch, nreq, faults, alertIn, alertOut,
                   alertInfo, mqtt,
                   conc, db, cal, ks>>

MqttPayloads == SeqsUpTo(MaxLen, IngestReadings)
BatchItems ==
    {Request(d, <<p>>, TRUE) : d \in Devices, p \in IngestReadings}
BatchLists == SeqsUpTo(MaxBatch, BatchItems) \ {<<>>}

IngestStep ==
    /\ Serving
    /\ nreq < MaxReqs
    /\ \E d \in Devices, tokOk \in BOOLEAN, points \in RequestData :
        \E env \in AuthEnvs(d) : ingest_data(d, tokOk, points, env)
    /\ UNCHANGED <<alertInfo, mqtt, conc, db, cal, ks>>
BatchStep ==
    /\ Serving
    /\ ~batch.active
    /\ nreq < MaxReqs
    /\ \E items \in BatchLists, tokOk \in BOOLEAN :
        \E env \in AuthEnvs(items[1].device_id) : ingest_batch_data(items, tokOk, env)
    /\ UNCHANGED <<alertInfo, mqtt, conc, db, cal, ks>>
BatchNextStep ==
    /\ batch.active
    /\ \E env \in AuthEnvs(batch.items[1].device_id) : ingest_batch_next(env)
    /\ UNCHANGED <<alertInfo, mqtt, conc, db, cal, ks>>
TaskStep ==
    /\ \E i \in 1..Len(tasks) : \E env \in ProcEnvs(tasks[i].data.data, TRUE) :
        run_background_task(i, env)
    /\ UNCHANGED <<alertInfo, mqtt, conc, db, cal, ks>>
MqttStep ==
    /\ nreq < MaxReqs
    /\ \E d \in Devices, points \in MqttPayloads, sized \in BOOLEAN :
        \E env \in ProcEnvs(points, sized \/ ~mqttEngine) :
            handle_data_message(d, points, sized, env)
    /\ UNCHANGED <<alertInfo, mqtt, conc, db, cal, ks>>
StatsStep ==
    /\ Serving
    /\ \E env \in StatsEnvs : get_stats(env)

Next ==
    \/ IngestStep
    \/ BatchStep
    \/ BatchNextStep
    \/ TaskStep
    \/ MqttStep
    \/ set_ingestion_service
    \/ shutdown_kafka
    \/ shutdown_redis
    \/ Tick
    \/ StatsStep

Spec == Init /\ [][Next]_vars

(***************************************************************************)
(* The alert evaluation on its own: a list of readings is drawn, and the   *)
(* evaluation loop of _check_alerts is applied to it.                      *)
(***************************************************************************)
AlertInit ==
    /\ now = 0
    /\ kafkaUp = TRUE
    /\ redisUp = TRUE
    /\ mqttEngine = FALSE
    /\ redis = EmptyStore
    /\ registry = Registered
    /\ lookups = [d \in Devices |-> 0]
    /\ cachedAt = [d \in Devices |-> -1]
    /\ tasks = <<>>
    /\ batch = NoBatch
    /\ nreq = 0
    /\ faults = 0
    /\ last = Quiet("start")
    /\ alertIn \in SeqsUpTo(MaxAlertLen, Readings)
    /\ alertOut = NotEvaluated
    /\ alertInfo \in DeviceThresholds
    /\ mqtt = Started
    /\ conc = NoCalls
    /\ db = NoTable
    /\ cal = NoCalendar
    /\ ks = NoKeys

check_alerts ==
    /\ ~alertOut.done
    /\ alertOut' = [done |-> TRUE, alerts |-> check_alerts_list(alertIn)]
    /\ UNCHANGED <<now, kafkaUp, redisUp, mqttEngine, redis, registry, lookups,
                   cachedAt, tasks, batch, nreq, faults, last, alertIn,
                   alertInfo, mqtt,
                   conc, db, cal, ks>>

AlertNext == check_alerts

AlertSpec == AlertInit /\ [][AlertNext]_vars

(***************************************************************************)
(* The subscription ingress (MQTTService) and the life cycle of the        *)
(* process (startup_event, shutdown_event).  A topic is the list of its    *)
(* segments (topic.split("/")).  A payload is what json.loads makes of it: *)
(* json is false when it does not parse; points is its "data" list, sized  *)
(* false when "data" is not a list; is_healthy its "is_healthy" field.     *)
(***************************************************************************)
StartPolls == 10
HealthTtl == 3600

Payload(json, points, sized, is_healthy) ==
    [json |-> json, points |-> points, sized |-> sized,
     is_healthy |-> is_healthy]

BadJson == Payload(FALSE, <<>>, TRUE, TRUE)
HealthPayload(is_healthy) == Payload(TRUE, <<>>, TRUE, is_healthy)
DataPayload(points) == Payload(TRUE, points, TRUE, TRUE)
UnsizedPayload == Payload(TRUE, <<>>, FALSE, TRUE)

OneReadingList == <<Reading("temperature", "temperature", TRUE, 55)>>
TwoReadingList ==
    <<Reading("temperature", "temperature", TRUE, 55),
      Reading("temperature", "temperature", TRUE, 25)>>

MalformedTopics ==
    {<<"bad", "topic">>, <<"iot", "dev-a">>, <<"home", "dev-a", "data">>,
     <<"iot", "dev-a", "data", "extra">>}

\* The messages the broker delivers.
MqttMessages ==
    {[topic |-> <<"iot", "dev-a", "data">>, payload |-> pl] :
        pl \in {BadJson, DataPayload(OneReadingList),
                DataPayload(TwoReadingList), UnsizedPayload}}
    \cup
    {[topic |-> <<"iot", "dev-b", "data">>,
      payload |-> DataPayload(OneReadingList)]}
    \cup
    {[topic |-> <<"iot", "dev-a", "health">>, payload |-> pl] :
        pl \in {BadJson, HealthPayload(TRUE), HealthPayload(FALSE)}}
    \cup
    {[topic |-> <<"iot", "dev-b", "status">>, payload |-> HealthPayload(FALSE)]}
    \cup
    {[topic |-> <<"iot", "dev-a", t>>, payload |-> DataPayload(OneReadingList)] :
        t \in {"alert", "config"}}
    \cup
    {[topic |-> tp, payload |-> DataPayload(OneReadingList)] :
        tp \in MalformedTopics}

\* if len(topic_parts) >= 3 and topic_parts[0] == "iot"
TopicAccepted(topic_parts) ==
    Len(topic_parts) >= 3 /\ topic_parts[1] = "iot"

\* MQTTService._on_message(msg).  `loop`: the thread the callback runs on has a
\* running asyncio event loop.  It has none on the network thread that
\* loop_start() creates: there asyncio.create_task raises RuntimeError, which
\* the except clause of the callback logs.
on_message(topic, payload, loop) ==
    LET accepted == TopicAccepted(topic)
        scheduled == accepted /\ loop
        m == [topic |-> topic,
              device_id |-> IF accepted THEN topic[2] ELSE "",
              message_type |-> IF accepted THEN topic[3] ELSE "",
              payload |-> payload, loop |-> loop, scheduled |-> scheduled]
    IN /\ mqtt' = [mqtt EXCEPT !.nmsg = @ + 1, !.msg = m,
                               !.inflight = IF scheduled THEN Append(@, m)
                                            ELSE @]
       /\ last' = Quiet("on_message")
       /\ UNCHANGED <<now, kafkaUp, redisUp, mqttEngine, redis, registry,
                      lookups, cachedAt, tasks, batch, nreq, faults, alertIn,
                      alertOut, alertInfo,
                   conc, db, cal, ks>>

\* A variant that keeps the snapshot for five minutes only.
set_device_health_short(s, d, is_healthy, ok) ==
    IF ~redisUp THEN s
    ELSE IF ok >= 1
    THEN [s EXCEPT !.health[d] = [has |-> TRUE, healthy |-> is_healthy,
                                  exp |-> now + ActiveTtl]]
    ELSE s

\* RedisService.set_device_health: setex(device:<d>:health, 3600, ...)
set_device_health(s, d, is_healthy, ok) ==
    IF ~redisUp THEN s
    ELSE IF ok >= 1
    THEN [s EXCEPT !.health[d] = [has |-> TRUE, healthy |-> is_healthy,
                                  exp |-> now + HealthTtl]]
    ELSE s

\* DataIngestionService.update_device_health; env = [store: commands of the
\* store write that succeed, pub: the broker accepts the health message].
update_device_health(s, d, is_healthy, env) ==
    [store |-> set_device_health(s, d, is_healthy, env.store),
     sends |-> <<Send(Msg(kafka_topic_health, d,
                          IF is_healthy THEN "healthy" ELSE "unhealthy",
                          d, NoDevice, <<>>, <<>>), env.pub)>>,
     raised |-> FALSE]

HealthFaults(e) ==
    (IF e.store < 1 THEN 1 ELSE 0) + (IF e.pub THEN 0 ELSE 1)

HealthEnvs ==
    {e \in [store : 0..1, pub : BOOLEAN] :
        /\ faults + HealthFaults(e) <= MaxFaults
        /\ ~redisUp => e.store = 1
        /\ ~kafkaUp => e.pub}

\* MQTTService._handle_health_message (and _handle_status_message, which
\* calls it).
handle_health_message(d, payload, env) ==
    /\ IF ~mqttEngine
       THEN /\ last' = [Quiet("mqtt") EXCEPT !.dev = d, !.before = redis]
            /\ UNCHANGED <<redis, faults, conc, db, cal, ks>>
       ELSE LET r == update_device_health(redis, d, payload.is_healthy, env)
            IN /\ redis' = r.store
               /\ faults' = faults + HealthFaults(env)
               /\ last' = [Quiet("mqtt") EXCEPT
                             !.dev = d, !.before = redis, !.health = TRUE,
                             !.stored = (redisUp /\ env.store = 1),
                             !.sends = r.sends, !.raised = r.raised]
    /\ UNCHANGED <<now, kafkaUp, redisUp, mqttEngine, registry, lookups,
                   cachedAt, tasks, batch, nreq, alertIn, alertOut,
                   conc, db, cal, ks>>

\* A message that ends in the handler without a call to the engine: the
\* payload does not parse, the type is alert (logged only) or unknown.
drop_message(d) ==
    /\ last' = [Quiet("mqtt") EXCEPT !.dev = d, !.before = redis]
    /\ UNCHANGED <<now, kafkaUp, redisUp, mqttEngine, redis, registry,
                   lookups, cachedAt, tasks, batch, nreq, faults, alertIn,
                   alertOut,
                   conc, db, cal, ks>>

\* A decoder that accepts every payload.
json_loads_raises_never(payload) == FALSE

\* data = json.loads(payload): JSONDecodeError when it does not parse.
json_loads_raises(payload) == ~payload.json

\* MQTTService._handle_mqtt_message(device_id, message_type, payload)
handle_mqtt_message(m) ==
    IF json_loads_raises(m.payload) THEN drop_message(m.device_id)
    ELSE IF m.message_type = "data"
    THEN \E env \in ProcEnvs(m.payload.points,
                             m.payload.sized \/ ~mqttEngine) :
            handle_data_message(m.device_id, m.payload.points,
                                m.payload.sized, env)
    ELSE IF m.message_type \in {"health", "status"}
    THEN \E env \in HealthEnvs :
            handle_health_message(m.device_id, m.payload, env)
    ELSE drop_message(m.device_id)

\* startup_event: kafka_producer.start() and redis_service.connect() raise
\* when they fail; mqtt_service.start() is only handed to asyncio.create_task.
startup_event(kafkaOk, redisOk) ==
    /\ mqtt.app = "starting"
    /\ kafkaUp' = kafkaOk
    /\ redisUp' = (kafkaOk /\ redisOk)
    /\ mqtt' = IF kafkaOk /\ redisOk
               THEN [mqtt EXCEPT !.app = "up", !.phase = "created"]
               ELSE [mqtt EXCEPT !.app = "aborted"]
    /\ last' = [Quiet("startup_event") EXCEPT !.raised = ~(kafkaOk /\ redisOk)]
    /\ UNCHANGED <<now, mqttEngine, redis, registry, lookups, cachedAt,
                   tasks, batch, nreq, faults, alertIn, alertOut, alertInfo,
                   conc, db, cal, ks>>

\* MQTTService.start up to the wait loop: mqtt.Client(), connect(),
\* loop_start().  connect() raises when the broker cannot be reached.
mqtt_start(connectOk) ==
    /\ mqtt.app = "up"
    /\ mqtt.phase = "created"
    /\ mqtt' = [mqtt EXCEPT !.client = TRUE, !.looping = connectOk,
                            !.phase = IF connectOk THEN "polling" ELSE "failed",
                            !.msg = NoMessage]
    /\ last' = [Quiet("mqtt_start") EXCEPT !.raised = ~connectOk]
    /\ UNCHANGED <<now, kafkaUp, redisUp, mqttEngine, redis, registry,
                   lookups, cachedAt, tasks, batch, nreq, faults, alertIn,
                   alertOut, alertInfo,
                   conc, db, cal, ks>>

\* One turn of the wait loop of MQTTService.start, or the check after it.
start_wait ==
    /\ mqtt.app = "up"
    /\ mqtt.phase = "polling"
    /\ mqtt' = IF mqtt.is_connected
               THEN [mqtt EXCEPT !.phase = "started", !.polls = 0,
                                 !.msg = NoMessage]
               ELSE IF mqtt.polls < StartPolls
               THEN [mqtt EXCEPT !.polls = @ + 1, !.msg = NoMessage]
               ELSE [mqtt EXCEPT !.phase = "failed", !.polls = 0,
                                 !.msg = NoMessage]
    /\ last' = [Quiet("start_wait") EXCEPT
                  !.raised = ~mqtt.is_connected /\ mqtt.polls >= StartPolls]
    /\ UNCHANGED <<now, kafkaUp, redisUp, mqttEngine, redis, registry,
                   lookups, cachedAt, tasks, batch, nreq, faults, alertIn,
                   alertOut, alertInfo,
                   conc, db, cal, ks>>

\* A subscription to the data pattern only.
default_topics_data_only == {"iot/+/data"}

\* MQTTService._subscribe_to_default_topics
default_topics == {"iot/+/data", "iot/+/health", "iot/+/status", "iot/+/alert"}

\* MQTTService._on_connect(rc), called on the network thread.
on_connect(rc) ==
    /\ mqtt.looping
    /\ ~mqtt.is_connected
    /\ mqtt' = [mqtt EXCEPT !.is_connected = (rc = 0), !.msg = NoMessage,
                            !.subs = IF rc = 0 THEN @ \cup default_topics
                                     ELSE @]
    /\ last' = Quiet("on_connect")
    /\ UNCHANGED <<now, kafkaUp, redisUp, mqttEngine, redis, registry,
                   lookups, cachedAt, tasks, batch, nreq, faults, alertIn,
                   alertOut, alertInfo,
                   conc, db, cal, ks>>

\* MQTTService._on_disconnect
on_disconnect ==
    /\ mqtt.looping
    /\ mqtt.is_connected
    /\ mqtt' = [mqtt EXCEPT !.is_connected = FALSE, !.msg = NoMessage,
                            !.subs = {}]
    /\ last' = Quiet("on_disconnect")
    /\ UNCHANGED <<now, kafkaUp, redisUp, mqttEngine, redis, registry,
                   lookups, cachedAt, tasks, batch, nreq, faults, alertIn,
                   alertOut, alertInfo,
                   conc, db, cal, ks>>

\* The last call of shutdown_event: mqtt_service.stop().  Tasks still
\* pending when shutdown_event returns are never run.
mqtt_stop ==
    /\ mqtt.app = "up"
    /\ ~kafkaUp
    /\ ~redisUp
    /\ mqtt' = [mqtt EXCEPT !.app = "down", !.msg = NoMessage,
                            !.looping = IF mqtt.client THEN FALSE ELSE @,
                            !.is_connected = IF mqtt.client THEN FALSE ELSE @,
                            !.subs = IF mqtt.client THEN {} ELSE @]
    /\ last' = Quiet("mqtt_stop")
    /\ UNCHANGED <<now, kafkaUp, redisUp, mqttEngine, redis, registry,
                   lookups, cachedAt, tasks, batch, nreq, faults, alertIn,
                   alertOut, alertInfo,
                   conc, db, cal, ks>>

MqttInit ==
    /\ now = 0
    /\ kafkaUp = FALSE
    /\ redisUp = FALSE
    /\ mqttEngine = FALSE
    /\ redis = EmptyStore
    /\ registry = Registered
    /\ lookups = [d \in Devices |-> 0]
    /\ cachedAt = [d \in Devices |-> -1]
    /\ tasks = <<>>
    /\ batch = NoBatch
    /\ nreq = 0
    /\ faults = 0
    /\ last = Quiet("start")
    /\ alertIn = <<>>
    /\ alertOut = NotEvaluated
    /\ alertInfo = NoThresholds
    /\ mqtt = NotStarted
    /\ conc = NoCalls
    /\ db = NoTable
    /\ cal = NoCalendar
    /\ ks = NoKeys

StartupStep == \E kafkaOk, redisOk \in BOOLEAN : startup_event(kafkaOk, redisOk)
MqttStartStep == \E connectOk \in BOOLEAN : mqtt_start(connectOk)
OnConnectStep == \E rc \in {0, 5} : on_connect(rc)
OnMessageStep ==
    /\ mqtt.looping
    /\ mqtt.is_connected
    /\ mqtt.nmsg < MaxReqs
    /\ \E msg \in MqttMessages, loop \in BOOLEAN :
          on_message(msg.topic, msg.payload, loop)
\* An event loop that runs the task created last.
next_task_newest(inflight) == Len(inflight)

\* The event loop runs the tasks of asyncio.create_task in the order they
\* were created: the index of the one that runs next.
next_task(inflight) == 1

\* A failing task that takes the other scheduled tasks down with it.
remaining_none(inflight, i) == <<>>

\* The tasks still scheduled when task i has run: each message is its own
\* task, and the run of one leaves the others scheduled.
remaining(inflight, i) ==
    [j \in 1..(Len(inflight) - 1) |->
        IF j < i THEN inflight[j] ELSE inflight[j + 1]]

MqttDispatchStep ==
    /\ mqtt.app = "up"
    /\ mqtt.inflight # <<>>
    /\ LET i == next_task(mqtt.inflight)
       IN /\ mqtt' = [mqtt EXCEPT !.inflight = remaining(@, i),
                                  !.msg = mqtt.inflight[i]]
          /\ handle_mqtt_message(mqtt.inflight[i])
    /\ UNCHANGED <<alertInfo, conc, db, cal, ks>>
StopKafkaStep == mqtt.app = "up" /\ shutdown_kafka
StopRedisStep == mqtt.app = "up" /\ shutdown_redis

MqttNext ==
    \/ StartupStep
    \/ MqttStartStep
    \/ start_wait
    \/ OnConnectStep
    \/ on_disconnect
    \/ OnMessageStep
    \/ MqttDispatchStep
    \/ set_ingestion_service
    \/ StopKafkaStep
    \/ StopRedisStep
    \/ mqtt_stop

MqttSpec == MqttInit /\ [][MqttNext]_vars

(***************************************************************************)
(* Interleaved process_data invocations.  process_data is a coroutine: it  *)
(* gives up the event loop at each await (the data-topic publish, each     *)
(* command of increment_device_data_points, the alert publishes), and      *)
(* other invocations run in between.  An invocation:                       *)
(*   dev, data, origin   the request and the ingress it came from          *)
(*   pc    0: at the publish; k in 1..5: at command k of                   *)
(*         increment_device_data_points; 6: at _check_alerts; 7: returned  *)
(*   pub   the data-topic publish was accepted                             *)
(*   acc   commands of increment_device_data_points the store accepted     *)
(*   read  the counters as they were when the invocation began             *)
(***************************************************************************)
MaxCalls == 2

Origins == {"http", "mqtt"}

Call(d, points, origin) ==
    [dev |-> d, data |-> points, origin |-> origin, pc |-> 0, pub |-> FALSE,
     acc |-> 0, read |-> [daily |-> 0, total |-> 0, today |-> 0, stats |-> 0]]

Calls ==
    {Call(d, points, origin) :
        d \in Devices, points \in {OneReadingList, TwoReadingList},
        origin \in Origins}

\* A counter update that reads the counter first and writes back the sum.
incrby_read_modify_write(current, read, amount) == read + amount

\* redis_client.incrby(key, amount): the server adds to the value it holds.
incrby(current, read, amount) == current + amount

\* Command k of increment_device_data_points, for invocation c.
counter_command(s, c, k) ==
    LET count == Len(c.data)
    IN CASE k = 1 -> [s EXCEPT !.daily[c.dev].v = incrby(@, c.read.daily, count)]
         [] k = 2 -> [s EXCEPT !.daily[c.dev].exp = now + DailyTtl]
         [] k = 3 -> [s EXCEPT !.total[c.dev] = incrby(@, c.read.total, count)]
         [] k = 4 -> [s EXCEPT !.stats_today = incrby(@, c.read.today, count)]
         [] k = 5 -> [s EXCEPT !.stats_total = incrby(@, c.read.stats, count)]

ConcInit ==
    /\ now = 0
    /\ kafkaUp = TRUE
    /\ redisUp = TRUE
    /\ mqttEngine = TRUE
    /\ redis = EmptyStore
    /\ registry = Registered
    /\ lookups = [d \in Devices |-> 0]
    /\ cachedAt = [d \in Devices |-> -1]
    /\ tasks = <<>>
    /\ batch = NoBatch
    /\ nreq = 0
    /\ faults = 0
    /\ last = Quiet("start")
    /\ alertIn = <<>>
    /\ alertOut = NotEvaluated
    /\ alertInfo = NoThresholds
    /\ mqtt = Started
    /\ conc \in [1..MaxCalls -> Calls]
    /\ db = NoTable
    /\ cal = NoCalendar
    /\ ks = NoKeys

ConcFrame ==
    UNCHANGED <<now, kafkaUp, redisUp, mqttEngine, registry, lookups,
                cachedAt, tasks, batch, nreq, alertIn, alertOut, alertInfo,
                mqtt, db, cal, ks>>

\* process_data up to its first await: the envelope is published.
call_publish(i, ok) ==
    /\ conc[i].pc = 0
    /\ faults + (IF ok THEN 0 ELSE 1) <= MaxFaults
    /\ faults' = faults + (IF ok THEN 0 ELSE 1)
    /\ conc' = [conc EXCEPT
                  ![i].pc = IF redisUp THEN 1 ELSE 6,
                  ![i].pub = send_message(ok),
                  ![i].read = [daily |-> redis.daily[conc[i].dev].v,
                               total |-> redis.total[conc[i].dev],
                               today |-> redis.stats_today,
                               stats |-> redis.stats_total]]
    /\ last' = [Quiet("call_publish") EXCEPT
                  !.dev = conc[i].dev, !.n = Len(conc[i].data),
                  !.data = conc[i].data, !.info = DeviceRecord(conc[i].dev),
                  !.before = redis,
                  !.sends = <<Send(Msg(kafka_topic_data, conc[i].dev,
                                       "envelope", conc[i].dev,
                                       DeviceRecord(conc[i].dev),
                                       conc[i].data, <<>>), ok)>>]
    /\ UNCHANGED redis
    /\ ConcFrame

\* One command of increment_device_data_points.  A command that fails
\* raises; the method logs it and returns.
call_command(i, ok) ==
    /\ conc[i].pc \in 1..5
    /\ faults + (IF ok THEN 0 ELSE 1) <= MaxFaults
    /\ faults' = faults + (IF ok THEN 0 ELSE 1)
    /\ redis' = IF ok THEN counter_command(redis, conc[i], conc[i].pc)
                ELSE redis
    /\ conc' = [conc EXCEPT
                  ![i].pc = IF ok THEN @ + 1 ELSE 6,
                  ![i].acc = IF ok THEN @ + 1 ELSE @]
    /\ last' = [Quiet("call_command") EXCEPT
                  !.dev = conc[i].dev, !.n = Len(conc[i].data),
                  !.before = redis]
    /\ ConcFrame

\* _check_alerts and the return of process_data.
call_check_alerts(i, ok) ==
    /\ conc[i].pc = 6
    /\ faults + (IF ok THEN 0 ELSE 1) <= MaxFaults
    /\ faults' = faults + (IF ok THEN 0 ELSE 1)
    /\ conc' = [conc EXCEPT ![i].pc = 7]
    /\ LET alerts == check_alerts_list(conc[i].data)
       IN last' = [Quiet("call_check_alerts") EXCEPT
                     !.dev = conc[i].dev, !.n = Len(conc[i].data),
                     !.before = redis, !.returns = PyNone,
                     !.sends = AlertSends(conc[i].dev,
                                          DeviceRecord(conc[i].dev), alerts,
                                          [j \in 1..Len(alerts) |-> ok])]
    /\ UNCHANGED redis
    /\ ConcFrame

CallPublishStep ==
    \E i \in 1..MaxCalls : \E ok \in BOOLEAN : call_publish(i, ok)
CallCommandStep ==
    \E i \in 1..MaxCalls : \E ok \in BOOLEAN : call_command(i, ok)
CallCheckAlertsStep ==
    \E i \in 1..MaxCalls : \E ok \in BOOLEAN : call_check_alerts(i, ok)

ConcNext == CallPublishStep \/ CallCommandStep \/ CallCheckAlertsStep

ConcSpec == ConcInit /\ [][ConcNext]_vars

(***************************************************************************)
(* The device registry: DeviceService over the devices table.  A row has a *)
(* primary key (id), the device_id and api_key columns, both UNIQUE, the   *)
(* owner, a name and a status.  An api key is the one the caller gave      *)
(* (gen false) or a generated one (gen true, fresh for each row).          *)
(***************************************************************************)
MaxCreates == 3
MaxStamps == 2

Owners == {"user-1", "user-2"}
Names == {"Sensor", "Pump"}
DeviceStatuses == {"active", "inactive", "maintenance", "decommissioned"}

NoKey == [gen |-> FALSE, n |-> 0]
GivenKeys == {[gen |-> FALSE, n |-> 1]}
generate_api_key(id) == [gen |-> TRUE, n |-> id]

\* device_models.Device(...): status defaults to INACTIVE, last_seen to NULL.
Row(id, device_id, name, api_key, owner_id) ==
    [id |-> id, device_id |-> device_id, name |-> name, status |-> "inactive",
     api_key |-> api_key, owner_id |-> owner_id, last_seen |-> -1]

\* A lookup that finds no row.
existing_none(rows, device_id) == {}

\* query(Device).filter(Device.device_id == device_id)
existing(rows, device_id) == {r \in rows : r.device_id = device_id}

\* query(Device).filter(device_id == ..., owner_id == ...)
get_device(rows, device_id, owner_id) ==
    {r \in rows : r.device_id = device_id /\ r.owner_id = owner_id}

\* The UNIQUE constraints of the table: commit raises IntegrityError when
\* the new row repeats a device_id or an api_key.
IntegrityOk(rows, row) ==
    \A r \in rows : r.device_id # row.device_id /\ r.api_key # row.api_key

RegistryInit ==
    /\ now = 0
    /\ kafkaUp = FALSE
    /\ redisUp = FALSE
    /\ mqttEngine = FALSE
    /\ redis = EmptyStore
    /\ registry = {}
    /\ lookups = [d \in Devices |-> 0]
    /\ cachedAt = [d \in Devices |-> -1]
    /\ tasks = <<>>
    /\ batch = NoBatch
    /\ nreq = 0
    /\ faults = 0
    /\ last = Quiet("start")
    /\ alertIn = <<>>
    /\ alertOut = NotEvaluated
    /\ alertInfo = NoThresholds
    /\ mqtt = NotStarted
    /\ conc = NoCalls
    /\ db = NoTable
    /\ cal = NoCalendar
    /\ ks = NoKeys

RegistryFrame ==
    UNCHANGED <<now, kafkaUp, redisUp, mqttEngine, redis, registry, lookups,
                cachedAt, tasks, batch, nreq, faults, last, alertIn, alertOut,
                alertInfo, mqtt, conc, cal, ks>>

RegistryCall(op, device_id, owner_id, raised, returned) ==
    [op |-> op, device_id |-> device_id, owner_id |-> owner_id,
     raised |-> raised, returned |-> returned, api_key |-> NoKey]

\* DeviceService.create_device
create_device(device_id, name, api_key, owner_id) ==
    /\ db.next < MaxCreates
    /\ IF existing(db.rows, device_id) # {}
       THEN db' = [db EXCEPT !.call =
                      RegistryCall("create_device", device_id, owner_id,
                                   "already exists", "")]
       ELSE LET id == db.next + 1
                key == IF api_key = NoKey THEN generate_api_key(id)
                       ELSE api_key
                row == Row(id, device_id, name, key, owner_id)
            IN IF IntegrityOk(db.rows, row)
               THEN db' = [db EXCEPT
                              !.rows = @ \cup {row}, !.next = id,
                              !.call = RegistryCall("create_device", device_id,
                                                    owner_id, "", "device")]
               ELSE db' = [db EXCEPT !.call =
                              RegistryCall("create_device", device_id,
                                           owner_id, "IntegrityError", "")]
    /\ RegistryFrame

\* DeviceService.update_device: the fields of DeviceUpdate that are set.
update_device(device_id, field, value, owner_id) ==
    /\ LET found == get_device(db.rows, device_id, owner_id)
       IN IF found = {}
          THEN db' = [db EXCEPT !.call =
                         RegistryCall("update_device", device_id, owner_id,
                                      "", "None")]
          ELSE LET row == CHOOSE r \in found : TRUE
                   new == IF field = "name" THEN [row EXCEPT !.name = value]
                          ELSE [row EXCEPT !.status = value]
               IN db' = [db EXCEPT
                           !.rows = (@ \ {row}) \cup {new},
                           !.call = RegistryCall("update_device", device_id,
                                                 owner_id, "", "device")]
    /\ RegistryFrame

\* DeviceService.delete_device
delete_device(device_id, owner_id) ==
    /\ LET found == get_device(db.rows, device_id, owner_id)
       IN IF found = {}
          THEN db' = [db EXCEPT !.call =
                         RegistryCall("delete_device", device_id, owner_id,
                                      "", "False")]
          ELSE db' = [db EXCEPT
                        !.rows = @ \ {CHOOSE r \in found : TRUE},
                        !.call = RegistryCall("delete_device", device_id,
                                              owner_id, "", "True")]
    /\ RegistryFrame

\* A credential check that does not look at the status of the device.
active_credentials_any_status(rows, device_id, api_key) ==
    {r \in rows : r.device_id = device_id /\ r.api_key = api_key}

\* query(Device).filter(device_id == ..., api_key == ..., status == ACTIVE)
active_credentials(rows, device_id, api_key) ==
    {r \in rows : /\ r.device_id = device_id
                  /\ r.api_key = api_key
                  /\ r.status = "active"}

\* DeviceService.authenticate_device of the registry: the JWT on success.
registry_authenticate_device(device_id, api_key) ==
    /\ LET found == active_credentials(db.rows, device_id, api_key)
       IN IF found = {}
          THEN db' = [db EXCEPT !.call =
                         [RegistryCall("authenticate_device", device_id, "",
                                       "Invalid device credentials", "")
                            EXCEPT !.api_key = api_key]]
          ELSE /\ db.clock < MaxStamps
               /\ LET row == CHOOSE r \in found : TRUE
                  IN db' = [db EXCEPT
                              !.rows = (@ \ {row})
                                       \cup {[row EXCEPT
                                                !.last_seen = db.clock + 1]},
                              !.clock = @ + 1,
                              !.call =
                                 [RegistryCall("authenticate_device",
                                               device_id, "", "", "token")
                                    EXCEPT !.api_key = api_key]]
    /\ RegistryFrame

\* DeviceService.update_device_status: the row is found by device_id alone.
update_device_status(device_id, status) ==
    /\ LET found == existing(db.rows, device_id)
       IN IF found = {}
          THEN db' = [db EXCEPT !.call =
                         RegistryCall("update_device_status", device_id, "",
                                      "", "False")]
          ELSE IF status = "active"
          THEN /\ db.clock < MaxStamps
               /\ LET row == CHOOSE r \in found : TRUE
                  IN db' = [db EXCEPT
                              !.rows = (@ \ {row})
                                       \cup {[row EXCEPT
                                                !.status = status,
                                                !.last_seen = db.clock + 1]},
                              !.clock = @ + 1,
                              !.call = RegistryCall("update_device_status",
                                                    device_id, "", "", "True")]
          ELSE LET row == CHOOSE r \in found : TRUE
               IN db' = [db EXCEPT
                           !.rows = (@ \ {row})
                                    \cup {[row EXCEPT !.status = status]},
                           !.call = RegistryCall("update_device_status",
                                                 device_id, "", "", "True")]
    /\ RegistryFrame

\* The keys a device may present: the given ones, a generated one, and one
\* no row holds.
PresentedKeys ==
    GivenKeys \cup {generate_api_key(i) : i \in 1..MaxCreates}
              \cup {[gen |-> FALSE, n |-> 2]}

AuthenticateStep ==
    \E d \in Devices, key \in PresentedKeys :
        registry_authenticate_device(d, key)
StatusStep ==
    \E d \in Devices, st \in DeviceStatuses : update_device_status(d, st)

CreateStep ==
    \E d \in Devices, name \in Names, key \in GivenKeys \cup {NoKey},
       owner \in Owners : create_device(d, name, key, owner)
UpdateStep ==
    \E d \in Devices, owner \in Owners :
       \/ \E name \in Names : update_device(d, "name", name, owner)
       \/ \E st \in DeviceStatuses : update_device(d, "status", st, owner)
DeleteStep ==
    \E d \in Devices, owner \in Owners : delete_device(d, owner)

RegistryNext == CreateStep \/ UpdateStep \/ DeleteStep

RegistrySpec == RegistryInit /\ [][RegistryNext]_vars

\* Device authentication at the registry: devices are registered by one
\* owner, their status is set, and they present keys.
RegisterStep ==
    \E d \in Devices, key \in GivenKeys \cup {NoKey} :
        create_device(d, "Sensor", key, "user-1")

DeviceAuthNext == RegisterStep \/ StatusStep \/ AuthenticateStep

DeviceAuthSpec == RegistryInit /\ [][DeviceAuthNext]_vars

(***************************************************************************)
(* The counters across UTC days.  increment_device_data_points names the   *)
(* daily key of a device after the current date, so at midnight the daily  *)
(* slot of every device is a new, absent key; the other keys are not named *)
(* after the date.                                                         *)
(***************************************************************************)
MaxDays == 2
SecondsPerDay == 86400

DayInit ==
    /\ now = 0
    /\ kafkaUp = TRUE
    /\ redisUp = TRUE
    /\ mqttEngine = FALSE
    /\ redis = EmptyStore
    /\ registry = Registered
    /\ lookups = [d \in Devices |-> 0]
    /\ cachedAt = [d \in Devices |-> -1]
    /\ tasks = <<>>
    /\ batch = NoBatch
    /\ nreq = 0
    /\ faults = 0
    /\ last = Quiet("start")
    /\ alertIn = <<>>
    /\ alertOut = NotEvaluated
    /\ alertInfo = NoThresholds
    /\ mqtt = Started
    /\ conc = NoCalls
    /\ db = NoTable
    /\ cal = NoCalendar
    /\ ks = NoKeys

\* One process_data call for a valid request, during the current day.
day_process_data(d, points, env) ==
    /\ nreq < MaxReqs
    /\ nreq' = nreq + 1
    /\ Processed("task", Request(d, points, TRUE), DeviceRecord(d), env)
    /\ cal' = [cal EXCEPT !.counted = @ + Len(points)]
    /\ UNCHANGED <<now, kafkaUp, redisUp, mqttEngine, registry, lookups,
                   cachedAt, tasks, batch, alertIn, alertOut, alertInfo,
                   mqtt, conc, db, ks>>

\* The UTC date changes: today = datetime.utcnow().strftime("%Y-%m-%d")
\* names another daily key from now on.
midnight ==
    /\ cal.day < MaxDays
    /\ now' = (cal.day + 1) * SecondsPerDay
    /\ redis' = ExpireKeys(
                    [redis EXCEPT !.daily = [d \in Devices |->
                                               [v |-> 0, exp |-> NoExpiry]]],
                    (cal.day + 1) * SecondsPerDay)
    /\ cal' = [day |-> cal.day + 1, counted |-> 0]
    /\ last' = Quiet("midnight")
    /\ UNCHANGED <<kafkaUp, redisUp, mqttEngine, registry, lookups, cachedAt,
                   tasks, batch, nreq, faults, alertIn, alertOut, alertInfo,
                   mqtt, conc, db, ks>>

DayIngestStep ==
    \E d \in Devices, points \in RequestData :
        \E env \in ProcEnvs(points, TRUE) : day_process_data(d, points, env)

DayNext == DayIngestStep \/ midnight \/ StatsStep

DaySpec == DayInit /\ [][DayNext]_vars

(***************************************************************************)
(* Properties.  `last` describes the handler invocation that led to the    *)
(* current state, so a statement about one call is a state predicate.      *)
(***************************************************************************)
\* The step made one authenticate_device call, for last.dev.
Authenticated == last.op \in {"ingest", "batch"}
\* The step ran process_data, for the request (last.dev, last.data).
ProcessedData == last.called

OnTopic(sends, topic) == SelectSeq(sends, LAMBDA x : x.msg.topic = topic)
OnTopicMsgs(msgs, topic) == SelectSeq(msgs, LAMBDA m : m.topic = topic)
AcceptedOn(sends, topic) == OnTopicMsgs(Accepted(sends), topic)

\* A request the schema accepts: a list of 1..1000 readings.
ValidRequest == last.sized /\ 1 <= last.n /\ last.n <= 1000
\* The data-topic publish of the call succeeded.
DataPublished == Len(last.sends) >= 1 /\ last.sends[1].ok

Counters(s) == <<s.daily, s.total, s.stats_today, s.stats_total>>

\* C1 (as claimed): for every valid request with N readings whose data-topic
\* publish succeeds, process_data makes exactly one publish to the data topic,
\* the envelope carries those N readings for that device id, and the device's
\* cumulative counter increases by exactly N.
C1_Claimed ==
    (ProcessedData /\ ValidRequest /\ DataPublished) =>
        /\ Len(OnTopic(last.sends, kafka_topic_data)) = 1
        /\ last.sends[1].msg.device_id = last.dev
        /\ last.sends[1].msg.data = last.data
        /\ Len(last.sends[1].msg.data) = last.n
        /\ redis.total[last.dev] = last.before.total[last.dev] + last.n

\* C1 (amended): for every valid request with N readings whose data-topic
\* publish succeeds, process_data makes exactly one publish to the data topic,
\* keyed by the device id, whose envelope carries those N readings for that
\* device id; the device's cumulative counter increases by exactly N when
\* every command of the store's increment succeeds, and otherwise it is
\* either increased by N or left as it was.
C1_ForwardedAndCounted ==
    (ProcessedData /\ ValidRequest /\ DataPublished) =>
        /\ Len(OnTopic(last.sends, kafka_topic_data)) = 1
        /\ last.sends[1].msg.key = last.dev
        /\ last.sends[1].msg.device_id = last.dev
        /\ last.sends[1].msg.data = last.data
        /\ Len(last.sends[1].msg.data) = last.n
        /\ last.incrOk =>
              redis.total[last.dev] = last.before.total[last.dev] + last.n
        /\ redis.total[last.dev] \in
              {last.before.total[last.dev],
               last.before.total[last.dev] + last.n}

C1_Witness ==
    /\ ProcessedData /\ ValidRequest /\ DataPublished
    /\ last.n = 2
    /\ last.incrOk
    /\ redis.total[last.dev] = 4

\* C2 (as claimed): whenever the data-topic publish fails, exactly one message
\* is published to the error topic, keyed by the device id, containing the
\* original device id and readings, and the device's daily and total counters
\* and the global counters are unchanged.
C2_Claimed ==
    (ProcessedData /\ ~DataPublished) =>
        /\ Len(AcceptedOn(last.sends, kafka_topic_errors)) = 1
        /\ \A i \in 1..Len(last.sends) :
              last.sends[i].msg.topic = kafka_topic_errors =>
                  /\ last.sends[i].msg.key = last.dev
                  /\ last.sends[i].msg.device_id = last.dev
                  /\ last.sends[i].msg.data = last.data
        /\ Counters(redis) = Counters(last.before)

\* C3 (as claimed): every request handed to process_data ends in exactly one
\* terminal outcome: its envelope was forwarded on the data topic, or a
\* failure record was written to the error topic; never both, never neither.
C3_Claimed ==
    ProcessedData =>
        LET forwarded == Len(AcceptedOn(last.sends, kafka_topic_data)) >= 1
            recorded == Len(AcceptedOn(last.sends, kafka_topic_errors)) >= 1
        IN (forwarded /\ ~recorded) \/ (~forwarded /\ recorded)

\* C4 (as claimed): the first authenticate_device call for an unseen device
\* id triggers exactly one directory lookup, and a second call for the same
\* id within the cache time-to-live triggers none.  Stated for the second
\* call coming right after the first: the call before this one was the
\* device's first (it made the device's only lookup so far), no time has
\* passed, and this call makes no lookup.
C4_Claimed ==
    [][(/\ Authenticated
        /\ last.looked
        /\ lookups[last.dev] = 1
        /\ Authenticated'
        /\ last'.dev = last.dev
        /\ now' = now)
       => ~last'.looked]_vars

\* C4 (amended): an authenticate_device call for a device id triggers no
\* directory lookup when a record looked up for that id was cached less than
\* 300 seconds before and the store returns it; in every other case (the id
\* was never looked up, the lookup returned no record, the store did not
\* take or does not return the entry, or 300 seconds have passed since the
\* entry was cached) it triggers exactly one lookup.
C4_LookupIffNotCached ==
    Authenticated =>
        LET d == last.dev
            fresh == /\ last.cachedAt >= 0
                     /\ now < last.cachedAt + InfoTtl
            before == lookups[d] - (IF last.looked THEN 1 ELSE 0)
        IN /\ last.looked <=> ~(fresh /\ last.readOk)
           /\ before = 0 => last.looked
           /\ last.looked => last.status \in {0, 200, 404}
           /\ ~last.looked => last.status = -1

\* A second call within the time-to-live, after time has passed, is served
\* from the cache.
C4_Witness ==
    /\ Authenticated
    /\ ~last.looked
    /\ lookups[last.dev] = 1
    /\ last.cachedAt >= 0
    /\ now > last.cachedAt

\* After the time-to-live has run out, the next call looks the device up again.
C4_WitnessExpired ==
    /\ Authenticated
    /\ last.looked
    /\ last.cachedAt >= 0
    /\ now >= last.cachedAt + InfoTtl
    /\ lookups[last.dev] = 2

\* C5 (as claimed): authenticate_device returns no device context whenever the
\* presented credential is not the device's, also when the device is in the
\* cache or the directory.
C5_Claimed ==
    (Authenticated /\ ~last.tokOk) => last.info = NoDevice

\* C6 (as claimed): when the directory has no record for the device or the
\* lookup fails, authenticate_device returns no context and leaves the store
\* unchanged; when it returns a context, the device's last-seen timestamp has
\* been updated.
LastSeenUpdated ==
    redis.last_seen[last.dev] =
        [has |-> TRUE, ts |-> now, exp |-> now + LastSeenTtl]

C6_Claimed ==
    Authenticated =>
        /\ (last.looked /\ last.status # 200) =>
              (last.info = NoDevice /\ redis = last.before)
        /\ last.info # NoDevice => LastSeenUpdated

\* C6 (amended): when the directory has no record for the device or the
\* lookup fails, authenticate_device returns no context and leaves the store
\* unchanged; when it returns a context and the store accepts the write of
\* the last-seen key, the device's last-seen timestamp has been updated, and
\* when the store does not accept it, last-seen is left as it was.
C6_RefusedLeavesStore ==
    Authenticated =>
        /\ (last.looked /\ last.status # 200) =>
              (last.info = NoDevice /\ redis = last.before)
        /\ last.info = NoDevice => redis = last.before
        /\ (last.info # NoDevice /\ last.seen >= 1) => LastSeenUpdated
        /\ (last.info # NoDevice /\ last.seen = 0) =>
              redis.last_seen = last.before.last_seen

C6_Witness ==
    /\ Authenticated
    /\ last.looked
    /\ last.status = 404
    /\ last.info = NoDevice
    /\ last.before.active.members # {}

C6_WitnessSeen ==
    /\ Authenticated
    /\ last.info # NoDevice
    /\ LastSeenUpdated
    /\ last.before.last_seen[last.dev].has
    /\ last.before.last_seen[last.dev].ts < now

C8_Claimed ==
    (Authenticated /\ last.info = NoDevice) =>
        /\ last.resp = HTTP_401_UNAUTHORIZED
        /\ last.queued = 0
        /\ ~last.called

\* ---- Alert evaluation (AlertSpec) ----

Evaluated == alertOut.done
\* The evaluation was of one reading whose value converts to a number.
OneReading == Evaluated /\ Len(alertIn) = 1 /\ alertIn[1].numeric
WithSeverity(alerts, sev) == SelectSeq(alerts, LAMBDA a : a.severity = sev)
OfMetric(alerts, m) == SelectSeq(alerts, LAMBDA a : a.metric = m)
\* No reading of the list makes a rule's float() raise.
Convertible == \A i \in 1..Len(alertIn) : ~FloatRaises(alertIn[i])
RECURSIVE LowBatteries(_)
LowBatteries(points) ==
    IF points = <<>> THEN <<>>
    ELSE LET p == Head(points)
         IN (IF p.metric_name = "battery_level" /\ p.value < BatteryLow
             THEN <<p.value>> ELSE <<>>) \o LowBatteries(Tail(points))
ValuesOf(alerts) == [i \in 1..Len(alerts) |-> alerts[i].value]

\* C9 (as claimed): the evaluation of one temperature reading (a reading
\* tagged with data type temperature) yields exactly one alert of severity
\* "high" when value > 50, exactly one alert of severity "medium" when
\* value < 0, and zero alerts when 0 <= value <= 50.
C9_Claimed ==
    (OneReading /\ alertIn[1].data_type = "temperature") =>
        LET v == alertIn[1].value
            out == alertOut.alerts
        IN /\ v > TempHigh => Len(WithSeverity(out, "high")) = 1
           /\ v < TempLow => Len(WithSeverity(out, "medium")) = 1
           /\ (TempLow <= v /\ v <= TempHigh) => Len(out) = 0

\* C9 (amended): the evaluation of one reading tagged with data type
\* temperature yields exactly one temperature alert, of severity "high" and
\* threshold 50, when value > 50; exactly one temperature alert, of severity
\* "medium" and threshold 0, when value < 0; and no temperature alert when
\* 0 <= value <= 50.  These are all the alerts of the reading unless its
\* metric name is battery_level and its value is below 10, in which case the
\* battery alert follows them.  A reading with another data-type tag raises
\* no temperature alert, whatever its metric name.
C9_TemperatureRule ==
    OneReading =>
        LET p == alertIn[1]
            v == p.value
            out == alertOut.alerts
            temp == OfMetric(out, "temperature")
            rest == OfMetric(out, "battery_level")
        IN /\ out = temp \o rest
           /\ p.data_type = "temperature" =>
                /\ v > TempHigh =>
                      temp = <<Alert("temperature", v, TempHigh, "high")>>
                /\ v < TempLow =>
                      temp = <<Alert("temperature", v, TempLow, "medium")>>
                /\ (TempLow <= v /\ v <= TempHigh) => temp = <<>>
           /\ p.data_type # "temperature" => temp = <<>>
           /\ (p.metric_name # "battery_level" \/ v >= BatteryLow) => rest = <<>>
           /\ (p.metric_name = "battery_level" /\ v < BatteryLow) => Len(rest) = 1

C9_Witness ==
    /\ OneReading
    /\ alertIn[1].data_type = "temperature"
    /\ alertIn[1].metric_name = "temperature"
    /\ alertIn[1].value = 55
    /\ alertOut.alerts = <<Alert("temperature", 55, TempHigh, "high")>>

\* A temperature-tagged reading named battery_level raises both alerts.
C9_WitnessBoth ==
    /\ OneReading
    /\ alertIn[1].data_type = "temperature"
    /\ alertIn[1].metric_name = "battery_level"
    /\ alertIn[1].value = -5
    /\ Len(alertOut.alerts) = 2

\* C10: a reading whose metric name is exactly battery_level yields exactly
\* one high-severity alert when value < 10 and no battery alert when
\* value >= 10, whatever its data-type tag; over a list whose values all
\* convert, the battery alerts are those of the readings named battery_level
\* with a value below 10, in order.
C10_BatteryRule ==
    /\ (OneReading /\ alertIn[1].metric_name = "battery_level") =>
          LET v == alertIn[1].value
              out == alertOut.alerts
          IN /\ v < BatteryLow =>
                  /\ Len(WithSeverity(out, "high")) = 1
                  /\ OfMetric(out, "battery_level") =
                        <<Alert("battery_level", v, BatteryLow, "high")>>
             /\ v >= BatteryLow => OfMetric(out, "battery_level") = <<>>
    /\ (Evaluated /\ Convertible) =>
          ValuesOf(OfMetric(alertOut.alerts, "battery_level")) =
              LowBatteries(alertIn)

C10_Witness ==
    /\ OneReading
    /\ alertIn[1].metric_name = "battery_level"
    /\ alertIn[1].data_type = "custom"
    /\ alertIn[1].value = 5
    /\ alertOut.alerts = <<Alert("battery_level", 5, BatteryLow, "high")>>

\* C11 (as claimed): when the device context supplies explicit thresholds
\* {max, min} for a metric, a reading of that metric raises a high-severity
\* alert exactly when value > max or value < min, in place of the built-in
\* rule for that metric.
C11_Claimed ==
    (/\ OneReading
     /\ alertInfo # NoThresholds
     /\ alertIn[1].metric_name = alertInfo.metric) =>
        LET v == alertIn[1].value
            high == WithSeverity(alertOut.alerts, "high")
        IN /\ (v > alertInfo.max \/ v < alertInfo.min) => Len(high) = 1
           /\ ~(v > alertInfo.max \/ v < alertInfo.min) => alertOut.alerts = <<>>

\* C12 (as claimed): a reading whose value is not numeric, for a rule that
\* expects a number, is skipped: it produces no alert itself and the alerts
\* of the evaluation are those of the other readings of the list.
C12_Claimed ==
    Evaluated =>
        alertOut.alerts =
            AlertsOf(SelectSeq(alertIn, LAMBDA p : ~FloatRaises(p)))

\* ---- The subscription ingress (MqttSpec) ----

\* The step was a delivery to _on_message / a run of _handle_mqtt_message,
\* for the message mqtt.msg.
Delivered == last.op = "on_message"
Handled == last.op = "mqtt"
\* {namespace}/{deviceId}/{messageType} with namespace iot.
WellFormed(topic) == Len(topic) = 3 /\ topic[1] = "iot"
Decodable == mqtt.msg.payload.json
EngineCalled == last.called \/ last.health

\* C13 (as claimed): a message delivered on iot/<deviceId>/data whose payload
\* carries a list of k readings results in exactly one process_data
\* invocation, for that device, with exactly those readings; a message on
\* bad/topic results in no engine invocation.
C13_Claimed ==
    /\ (/\ Delivered
        /\ WellFormed(mqtt.msg.topic)
        /\ mqtt.msg.topic[3] = "data") => mqtt.msg.scheduled
    /\ (/\ Handled
        /\ WellFormed(mqtt.msg.topic)
        /\ mqtt.msg.message_type = "data"
        /\ Decodable
        /\ mqtt.msg.payload.sized) =>
            /\ last.called
            /\ last.dev = mqtt.msg.topic[2]
            /\ last.data = mqtt.msg.payload.points
    /\ (Delivered /\ mqtt.msg.topic = <<"bad", "topic">>) =>
            ~mqtt.msg.scheduled

\* C14 (as claimed): a message whose topic does not consist of exactly three
\* segments, or whose namespace is not iot, is dropped: no handler is
\* scheduled for it, so that it causes no process_data and no
\* update_device_health invocation; the ingress goes on receiving.
C14_Claimed ==
    /\ (Delivered /\ ~WellFormed(mqtt.msg.topic)) =>
            /\ ~mqtt.msg.scheduled
            /\ mqtt.looping
            /\ mqtt.is_connected
    /\ (Handled /\ ~WellFormed(mqtt.msg.topic)) => ~EngineCalled

\* C15: a message whose payload cannot be decoded is dropped by
\* _handle_mqtt_message: no engine invocation, no publish, no store write;
\* nothing is raised to the caller, and the message is not handled again (it
\* leaves the dispatches in flight and nothing is queued in its place).
C15_UndecodableDropped ==
    [][(last'.op = "mqtt" /\ ~mqtt'.msg.payload.json) =>
          /\ mqtt.inflight # <<>>
          /\ mqtt'.msg = Head(mqtt.inflight)
          /\ mqtt'.inflight = Tail(mqtt.inflight)
          /\ ~last'.called
          /\ ~last'.health
          /\ last'.sends = <<>>
          /\ ~last'.raised
          /\ redis' = redis
          /\ tasks' = tasks
          /\ nreq' = nreq]_vars

C15_Witness ==
    /\ Handled
    /\ ~Decodable
    /\ mqttEngine
    /\ mqtt.msg.message_type = "data"
    /\ ~last.called

\* C16 (as claimed): a decodable message of type health or status results in
\* exactly one update_device_health invocation for that device and no
\* process_data; a message of type alert results in no engine invocation
\* and nothing published; any other type results in no engine invocation.
C16_Claimed ==
    (Handled /\ Decodable /\ WellFormed(mqtt.msg.topic)) =>
        LET t == mqtt.msg.message_type
        IN /\ t \in {"health", "status"} =>
                /\ last.health
                /\ ~last.called
                /\ last.dev = mqtt.msg.topic[2]
           /\ t = "alert" => (~EngineCalled /\ last.sends = <<>>)
           /\ t \notin {"data", "health", "status", "alert"} => ~EngineCalled

\* C17 (as claimed): MQTTService.start polls at most 10 times for the
\* connection, and when it fails the failure is a startup error of the
\* process: startup does not complete.
C17_Claimed ==
    /\ mqtt.polls <= StartPolls
    /\ mqtt.phase = "failed" => mqtt.app = "aborted"

\* C18 (as claimed): on shutdown the ingress stops accepting messages before
\* anything is torn down, and every dispatch in flight completes: no
\* dispatch runs against a stopped publisher or store, and none is left
\* behind when shutdown has finished.
C18_Claimed ==
    /\ (mqtt.app = "up" /\ mqtt.looping) => (kafkaUp /\ redisUp)
    /\ (Handled /\ EngineCalled) => (kafkaUp /\ redisUp)
    /\ mqtt.app = "down" => mqtt.inflight = <<>>

\* C19: update_device_health stores a health snapshot of the device with a
\* one-hour expiry and publishes it to the health topic keyed by the device
\* id; it never raises: when the store does not take the write the store is
\* left as it was and the snapshot is still published, and a failed publish
\* leaves the stored snapshot in place.
C19_HealthBestEffort ==
    (Handled /\ last.health) =>
        LET d == last.dev
            snapshot == [has |-> TRUE, healthy |-> mqtt.msg.payload.is_healthy,
                         exp |-> now + HealthTtl]
        IN /\ ~last.raised
           /\ Len(last.sends) = 1
           /\ last.sends[1].msg.topic = kafka_topic_health
           /\ last.sends[1].msg.key = d
           /\ last.sends[1].msg.device_id = d
           /\ last.sends[1].msg.kind =
                 (IF mqtt.msg.payload.is_healthy THEN "healthy" ELSE "unhealthy")
           /\ last.stored =>
                 redis = [last.before EXCEPT !.health[d] = snapshot]
           /\ ~last.stored => redis = last.before

C19_Witness ==
    /\ Handled
    /\ last.health
    /\ last.stored
    /\ last.sends[1].ok
    /\ ~mqtt.msg.payload.is_healthy
    /\ redis.health[last.dev].has

C19_WitnessFailedWrite ==
    /\ Handled
    /\ last.health
    /\ ~last.stored
    /\ redisUp
    /\ last.sends[1].ok

\* ---- Statistics (Spec) ----

StatsOf(s) ==
    [total_devices |-> Cardinality({d \in Devices : s.info[d].has}),
     active_devices |-> Cardinality(s.active.members),
     data_points_today |-> s.stats_today,
     data_points_total |-> s.stats_total]

C21_Claimed ==
    (ProcessedData /\ ~DataPublished) =>
        (~last.raised /\ last.returns # PyNone)

(***************************************************************************)
(* C22: counters are monotonically non-decreasing within a counting        *)
(* window.  No step of the service (process_data, update_device_health,    *)
(* authenticate_device, get_stats, or any other) lowers a device's         *)
(* cumulative counter or a global counter, and a device's daily counter    *)
(* goes down only when the store drops its key at the end of the key's     *)
(* time-to-live.                                                           *)
(***************************************************************************)
C22_CountersMonotone ==
    [][/\ \A d \in Devices :
            /\ redis'.total[d] >= redis.total[d]
            /\ \/ redis'.daily[d].v >= redis.daily[d].v
               \/ ~Live(redis.daily[d].exp, now')
       /\ redis'.stats_today >= redis.stats_today
       /\ redis'.stats_total >= redis.stats_total]_vars

\* A second process_data call has added to a device's counters.
C22_Witness ==
    /\ ProcessedData
    /\ last.before.total["dev-a"] >= 1
    /\ redis.total["dev-a"] > last.before.total["dev-a"]
    /\ redis.daily["dev-a"].v > last.before.daily["dev-a"].v
    /\ redis.stats_total > last.before.stats_total

\* The readings of the invocations for device d that got past command k of
\* increment_device_data_points.
RECURSIVE CountedFrom(_, _, _)
CountedFrom(calls, devs, k) ==
    IF calls = <<>> THEN 0
    ELSE (IF Head(calls).dev \in devs /\ Head(calls).acc >= k
          THEN Len(Head(calls).data) ELSE 0)
         + CountedFrom(Tail(calls), devs, k)

AllReturned == \A i \in DOMAIN conc : conc[i].pc = 7
AllPublished == \A i \in DOMAIN conc : conc[i].pub

(***************************************************************************)
(* C23 (as claimed): counter updates are not lost under concurrency.  When *)
(* interleaved process_data invocations, each with a successful publish,   *)
(* have all returned, the total of each device and the global total have   *)
(* increased by exactly the sum of the batch sizes.                        *)
(***************************************************************************)
C23_Claimed ==
    (AllReturned /\ AllPublished) =>
        /\ \A d \in Devices : redis.total[d] = CountedFrom(conc, {d}, 0)
        /\ redis.stats_total = CountedFrom(conc, Devices, 0)

(***************************************************************************)
(* C23 (amended): at every point of every interleaving, each counter holds *)
(* exactly the sum of the batch sizes of the invocations whose command on  *)
(* that counter the store accepted: an accepted update is never lost, and  *)
(* an invocation whose publish succeeded but whose counter command failed  *)
(* is not counted.                                                         *)
(***************************************************************************)
C23_NoLostUpdate ==
    /\ \A d \in Devices :
          /\ redis.daily[d].v = CountedFrom(conc, {d}, 1)
          /\ redis.total[d] = CountedFrom(conc, {d}, 3)
    /\ redis.stats_today = CountedFrom(conc, Devices, 4)
    /\ redis.stats_total = CountedFrom(conc, Devices, 5)

\* Two invocations for the same device, one per ingress, both began before
\* either updated a counter, and both have returned with every command
\* accepted.
C23_Witness ==
    /\ AllReturned /\ AllPublished
    /\ conc[1].dev = conc[2].dev
    /\ conc[1].origin = "http" /\ conc[2].origin = "mqtt"
    /\ conc[1].acc = 5 /\ conc[2].acc = 5
    /\ conc[1].read.total = 0 /\ conc[2].read.total = 0
    /\ redis.total[conc[1].dev] = Len(conc[1].data) + Len(conc[2].data)

\* A step that ran one of the scheduled _handle_mqtt_message tasks.
Dispatched ==
    /\ mqtt.inflight # <<>>
    /\ Len(mqtt'.inflight) = Len(mqtt.inflight) - 1

Without(q, i) ==
    [j \in 1..(Len(q) - 1) |-> IF j < i THEN q[j] ELSE q[j + 1]]

IsDataOf(m, d) == m.device_id = d /\ m.message_type = "data"

UniqueDeviceIds ==
    \A r1, r2 \in db.rows : r1.device_id = r2.device_id => r1 = r2

(***************************************************************************)
(* C25: registry create_device with a device_id that already exists is     *)
(* rejected with an 'already exists' error and leaves the registry         *)
(* unchanged; after any sequence of create, update and delete operations   *)
(* no two device records share a device_id.                                *)
(***************************************************************************)
C25_DuplicateRejected ==
    [][/\ (/\ db'.call.op = "create_device"
           /\ db'.call # db.call
           /\ \E r \in db.rows : r.device_id = db'.call.device_id)
          => (/\ db'.call.raised = "already exists"
              /\ db'.rows = db.rows)
       /\ UniqueDeviceIds']_vars

\* A create_device for a device_id that another owner registered, after that
\* row has been updated, was rejected.
C25_Witness ==
    /\ db.call.op = "create_device"
    /\ db.call.raised = "already exists"
    /\ db.call.device_id = "dev-a"
    /\ db.call.owner_id = "user-2"
    /\ \E r \in db.rows :
          /\ r.device_id = "dev-a" /\ r.owner_id = "user-1"
          /\ r.status = "active"
    /\ Cardinality(db.rows) = 2
    /\ db.next = 2

(***************************************************************************)
(* C26 (as claimed): alerts are published only after a successful forward. *)
(* When the data-topic publish of a process_data call succeeded, the call  *)
(* sends exactly one alert-topic message per alert raised by its readings, *)
(* keyed by the device id, in the order of the readings; when the publish  *)
(* failed, no reading is evaluated and no alert-topic message is           *)
(* published.                                                              *)
(***************************************************************************)
C26_Claimed ==
    (ProcessedData /\ ValidRequest) =>
        LET raised == check_alerts_list(last.data)
            sent == OnTopic(last.sends, kafka_topic_alerts)
        IN IF DataPublished
           THEN /\ Len(sent) = Len(raised)
                /\ \A i \in 1..Len(sent) :
                      /\ sent[i].msg.key = last.dev
                      /\ sent[i].msg.alerts = <<raised[i]>>
           ELSE AcceptedOn(last.sends, kafka_topic_alerts) = <<>>

(***************************************************************************)
(* C27: the MQTT data path bypasses authentication.  Handling an MQTT data *)
(* message makes no directory lookup and neither reads nor writes the      *)
(* device-info cache (nor the last-seen bookkeeping of authentication);    *)
(* the context handed to process_data is the lightweight one built from    *)
(* the device id of the topic.  The directory lookup count changes only    *)
(* through the HTTP path.                                                  *)
(***************************************************************************)
C27_MqttBypassesAuth ==
    [][/\ last'.op = "mqtt" =>
             /\ lookups' = lookups
             /\ cachedAt' = cachedAt
             /\ redis'.info = redis.info
             /\ redis'.last_seen = redis.last_seen
             /\ redis'.active = redis.active
             /\ ~last'.looked
             /\ last'.called =>
                   last'.info = [device_id |-> last'.dev,
                                 device_type |-> "sensor"]
       /\ lookups' # lookups => last'.op \in {"ingest", "batch"}]_vars

\* The readings of a device the directory has no record of were published
\* from an MQTT data message, without a lookup.
C27_Witness ==
    /\ last.op = "mqtt" /\ last.called /\ DataPublished
    /\ last.dev = "dev-b"
    /\ last.dev \notin registry
    /\ lookups["dev-b"] = 0
    /\ ~last.before.info["dev-b"].has

(***************************************************************************)
(* C28: the ingress is Connected only between a successful connect         *)
(* callback and the next disconnect callback or stop().  Every entry into  *)
(* Connected, the first one and each reconnection, is made by the connect  *)
(* callback and leaves the client subscribed to exactly the four patterns  *)
(* iot/+/data, iot/+/health, iot/+/status and iot/+/alert; the disconnect  *)
(* callback and stop() leave the ingress Disconnected, and it stays        *)
(* Disconnected once the process is down.                                  *)
(***************************************************************************)
C28_ConnectedLifecycle ==
    [][/\ (mqtt'.is_connected /\ ~mqtt.is_connected) =>
             last'.op = "on_connect"
       /\ mqtt'.is_connected =>
             /\ mqtt'.subs = {"iot/+/data", "iot/+/health", "iot/+/status",
                              "iot/+/alert"}
             /\ mqtt'.client /\ mqtt'.looping
       /\ last'.op \in {"on_disconnect", "mqtt_stop"} =>
             ~mqtt'.is_connected
       /\ mqtt'.app = "down" => ~mqtt'.is_connected]_vars

\* A reconnection: start() had seen the connection, it was lost, and the
\* connect callback has run again.
C28_Witness ==
    /\ last.op = "on_connect"
    /\ mqtt.is_connected
    /\ mqtt.phase = "started"
    /\ mqtt.subs = default_topics

\* stop() has ended a connection.
C28_WitnessStopped ==
    /\ last.op = "mqtt_stop"
    /\ mqtt.phase = "started"
    /\ mqtt.client /\ ~mqtt.is_connected /\ mqtt.subs = {}

\* The connection state of the ingress.
Connection(m) == <<m.app, m.client, m.looping, m.is_connected, m.subs>>

C29_WitnessPending ==
    /\ last.op = "mqtt" /\ ~last.called
    /\ ~mqtt.msg.payload.json
    /\ Len(mqtt.inflight) = 1
    /\ mqtt.inflight[1].payload = DataPayload(OneReadingList)

(***************************************************************************)
(* C30 (as claimed): the runtime state of a device is created on its first *)
(* reading or health report and updated on every later one, on either      *)
(* ingress.  After process_data has handled an event of device d, with the *)
(* store connected and no collaborator failure so far, a last-seen of d is *)
(* stored; for an event that arrived over MQTT (handled when received) it  *)
(* carries the time of the event, and get_device_status(d) reports         *)
(* is_online true.                                                         *)
(***************************************************************************)
C30_Claimed ==
    (ProcessedData /\ redisUp /\ faults = 0) =>
        /\ redis.last_seen[last.dev].has
        /\ last.op = "mqtt" =>
              /\ redis.last_seen[last.dev].ts = now
              /\ get_device_status(redis, last.dev, TRUE).is_online

(***************************************************************************)
(* C31 (as claimed): validation happens before the publish step on both    *)
(* ingresses.  Every process_data call that reaches the data-topic publish *)
(* carries an ordered list of between 1 and 1000 readings: a request with  *)
(* an empty, missing, oversized or non-list reading sequence never reaches *)
(* the publish, whether it arrived over HTTP or over MQTT.                 *)
(***************************************************************************)
C31_Claimed ==
    (/\ ProcessedData
     /\ Len(last.sends) >= 1
     /\ last.sends[1].msg.topic = kafka_topic_data) => ValidRequest

(***************************************************************************)
(* C32: store failures degrade gracefully and do not abort a batch.  When  *)
(* the state store is disconnected or one of its commands fails during a   *)
(* process_data call for a valid request, the call still makes exactly one *)
(* publish to the data topic, with the readings of the request, and one    *)
(* alert publish per alert of the batch, makes no publish to the error     *)
(* topic and does not raise; and a get_stats call hit by a store failure   *)
(* does not raise and reports 0 for a count it could not read.             *)
(***************************************************************************)
C32_StoreFailureTolerated ==
    /\ (ProcessedData /\ ValidRequest /\ ~last.incrOk) =>
          LET raised == check_alerts_list(last.data)
              sent == OnTopic(last.sends, kafka_topic_alerts)
          IN /\ ~last.raised
             /\ Len(OnTopic(last.sends, kafka_topic_data)) = 1
             /\ last.sends[1].msg.topic = kafka_topic_data
             /\ last.sends[1].msg.data = last.data
             /\ Len(sent) = Len(raised)
             /\ \A i \in 1..Len(sent) : sent[i].msg.alerts = <<raised[i]>>
             /\ OnTopic(last.sends, kafka_topic_errors) = <<>>
             /\ Len(last.sends) = 1 + Len(raised)
    /\ (last.op = "get_stats" /\ ~last.readOk) =>
          /\ ~last.raised
          /\ \E k \in DOMAIN NoStats : last.stats[k] = 0
          /\ \A k \in DOMAIN NoStats :
                last.stats[k] \in {0, StatsOf(last.before)[k]}

\* A command of the counter update failed while the store was connected;
\* the envelope and the alert of the reading were published all the same.
C32_Witness ==
    /\ ProcessedData /\ ValidRequest /\ ~last.incrOk /\ redisUp
    /\ DataPublished
    /\ Len(AcceptedOn(last.sends, kafka_topic_alerts)) = 1
    /\ redis.total[last.dev] = last.before.total[last.dev]

\* A task that ran during shutdown, after the store was disconnected: it
\* made the publish of the envelope and of the alert, and no other.
C32_WitnessDisconnected ==
    /\ ProcessedData /\ ValidRequest /\ ~redisUp
    /\ Len(last.sends) = 2
    /\ Len(OnTopic(last.sends, kafka_topic_alerts)) = 1
    /\ redis = last.before

\* A getter failed during get_stats and reported 0 where the store holds a
\* count.
C32_WitnessStats ==
    /\ last.op = "get_stats" /\ ~last.readOk
    /\ last.stats.data_points_total = 0
    /\ redis.stats_total > 0

(***************************************************************************)
(* C33 (as claimed): data_points_today reported by get_stats counts only   *)
(* the readings ingested during the current UTC day.  With no collaborator *)
(* failure so far, a get_stats call reports as data_points_today the       *)
(* number of readings ingested since the last midnight (0 after a day      *)
(* rollover with no further ingestion), and never more than                *)
(* data_points_total.                                                      *)
(***************************************************************************)
C33_Claimed ==
    (last.op = "get_stats" /\ last.readOk /\ faults = 0) =>
        /\ last.stats.data_points_today = cal.counted
        /\ last.stats.data_points_today <= last.stats.data_points_total

C34_WitnessRefused ==
    /\ db.call.op = "authenticate_device"
    /\ db.call.raised # ""
    /\ \E r \in db.rows :
          /\ r.device_id = db.call.device_id
          /\ r.api_key = db.call.api_key
          /\ r.status = "inactive"
          /\ r.last_seen = -1

(***************************************************************************)
(* DataIngestionService.authenticate_device against a directory that has   *)
(* a record for every device and loses records, observed for longer than   *)
(* the time-to-live of the cached context and of the devices:active set.   *)
(***************************************************************************)
MaxAuths == 3       \* DirectorySpec: authenticate_device calls
MaxLateTicks == 1   \* DirectorySpec: clock advances after those of Tick

DirectoryInit ==
    /\ now = 0
    /\ kafkaUp = TRUE
    /\ redisUp = TRUE
    /\ mqttEngine = FALSE
    /\ redis = EmptyStore
    /\ registry = Devices
    /\ lookups = [d \in Devices |-> 0]
    /\ cachedAt = [d \in Devices |-> -1]
    /\ tasks = <<>>
    /\ batch = NoBatch
    /\ nreq = 0
    /\ faults = 0
    /\ last = Quiet("start")
    /\ alertIn = <<>>
    /\ alertOut = NotEvaluated
    /\ alertInfo = NoThresholds
    /\ mqtt = Started
    /\ conc = NoCalls
    /\ db = NoTable
    /\ cal = NoCalendar
    /\ ks = NoKeys

\* One call of authenticate_device(token, device_id).
AuthenticateCall(d, tokOk, env) ==
    LET a == authenticate_device(redis, tokOk, d, env)
    IN /\ nreq < MaxAuths
       /\ nreq' = nreq + 1
       /\ AuthBookkeeping(a, d, env)
       /\ last' = [Quiet("authenticate") EXCEPT
                     !.dev = d, !.tokOk = tokOk,
                     !.info = a.info, !.looked = a.looked, !.before = redis,
                     !.status = IF a.looked THEN RegistryStatus(d, env) ELSE -1,
                     !.seen = IF redisUp THEN env.seen ELSE 0,
                     !.cachedAt = cachedAt[d],
                     !.readOk = redisUp /\ env.read = 1,
                     !.seenOk = redisUp /\ env.seen = 3]
       /\ UNCHANGED <<now, kafkaUp, redisUp, mqttEngine, registry, tasks,
                      batch, alertIn, alertOut, alertInfo, mqtt,
                      conc, db, cal, ks>>

DirectoryAuthStep ==
    \E d \in Devices, tokOk \in BOOLEAN :
        \E env \in AuthEnvs(d) : AuthenticateCall(d, tokOk, env)

\* The device registry deletes the record of a device.
Unregister ==
    /\ \E d \in registry : registry' = registry \ {d}
    /\ last' = Quiet("unregister")
    /\ UNCHANGED <<now, kafkaUp, redisUp, mqttEngine, redis, lookups,
                   cachedAt, tasks, batch, nreq, faults, alertIn, alertOut,
                   alertInfo, mqtt,
                   conc, db, cal, ks>>

LateTick ==
    /\ now >= MaxTicks * TickStep
    /\ now < (MaxTicks + MaxLateTicks) * TickStep
    /\ now' = now + TickStep
    /\ redis' = ExpireKeys(redis, now + TickStep)
    /\ last' = Quiet("tick")
    /\ UNCHANGED <<kafkaUp, redisUp, mqttEngine, registry, lookups, cachedAt,
                   tasks, batch, nreq, faults, alertIn, alertOut,
                   alertInfo, mqtt,
                   conc, db, cal, ks>>

DirectoryNext ==
    \/ DirectoryAuthStep
    \/ Unregister
    \/ Tick
    \/ LateTick
    \/ StatsStep

DirectorySpec == DirectoryInit /\ [][DirectoryNext]_vars

\* The devices whose last-seen update is less than `window` seconds old,
\* and those whose update is at most `window` seconds old.
SeenWithin(s, window) ==
    {d \in Devices : s.last_seen[d].has /\ now - s.last_seen[d].ts < window}

SeenWithinOrAt(s, window) ==
    {d \in Devices : s.last_seen[d].has /\ now - s.last_seen[d].ts <= window}

(***************************************************************************)
(* C35 (as claimed): the active-device count returned by get_stats is the  *)
(* number of distinct devices whose last-seen update happened within the   *)
(* preceding 300 seconds; a device without activity for more than 300      *)
(* seconds is not counted, even while other devices keep authenticating.   *)
(* Stated for calls in a behaviour where no store command has failed; a    *)
(* device seen exactly 300 seconds ago may be counted or not.              *)
(***************************************************************************)
C35_Claimed ==
    (last.op = "get_stats" /\ last.readOk /\ faults = 0) =>
        /\ last.stats.active_devices >=
               Cardinality(SeenWithin(last.before, ActiveTtl))
        /\ last.stats.active_devices <=
               Cardinality(SeenWithinOrAt(last.before, ActiveTtl))

\* The sum of the per-device total counters of a store.
RECURSIVE SumTotals(_, _)
SumTotals(s, ds) ==
    IF ds = {} THEN 0
    ELSE LET d == CHOOSE x \in ds : TRUE
         IN s.total[d] + SumTotals(s, ds \ {d})

(***************************************************************************)
(* C36 (as claimed): after any sequence of process_data calls, partial     *)
(* store failures included, stats:data_points:total equals the sum over    *)
(* the devices of device:<id>:data_points:total, and the total of each     *)
(* device equals the sum of its unexpired daily counters (within one day:  *)
(* the counter of today).                                                  *)
(***************************************************************************)
C36_Claimed ==
    /\ redis.stats_total = SumTotals(redis, Devices)
    /\ \A d \in Devices : redis.total[d] = redis.daily[d].v

(***************************************************************************)
(* RedisService.cleanup_expired_data over the data-point counter keys.     *)
(* A string is a date, strftime("%Y-%m-%d") of a day, or a word of         *)
(* lowercase letters.  A device id is the list of the pieces between its   *)
(* colons; a key is kept as the device id and the suffix it was built of,  *)
(* and split(":") gives its parts.                                         *)
(***************************************************************************)
MaxCounts == 2          \* CleanupSpec: increment_device_data_points calls
MaxCleanupDays == 9     \* CleanupSpec: days the clock advances
RetentionDays == 7      \* timedelta(days=7)

strftime(day) == [date |-> TRUE, day |-> day, word |-> ""]
Word(w) == [date |-> FALSE, day |-> 0, word |-> w]

\* a < b of two Python strings, b a date: dates of four-digit years compare
\* as their days do, and a digit sorts before every lowercase letter.
str_lt(a, b) == IF a.date THEN a.day < b.day ELSE FALSE

\* The device ids counted: "dev-a", "dev:b", and "x:y:2020-01-01", whose
\* last piece reads as a date long before the service started.
DeviceIds ==
    {<<Word("dev-a")>>,
     <<Word("dev"), Word("b")>>,
     <<Word("x"), Word("y"), strftime(-2000)>>}

\* f"device:{device_id}:data_points:{suffix}", with the day its time-to-live
\* ends (NoExpiry: the key has none).
CounterKey(id, suffix, ttl) == [id |-> id, suffix |-> suffix, ttl |-> ttl]

\* key.split(":")
split(key) == <<Word("device")>> \o key.id \o <<Word("data_points"), key.suffix>>

\* The store after a write of the key (id, suffix): an existing key keeps
\* its time-to-live.
Touch(keys, id, suffix) ==
    IF \E k \in keys : k.id = id /\ k.suffix = suffix THEN keys
    ELSE keys \cup {CounterKey(id, suffix, NoExpiry)}

\* expire(key, 86400 * 7)
Expire(keys, id, suffix, ttl) ==
    {IF k.id = id /\ k.suffix = suffix THEN [k EXCEPT !.ttl = ttl] ELSE k :
        k \in keys}

\* increment_device_data_points as far as the keys go: `ok` of its commands
\* succeed (incrby daily, expire daily, incrby total, ...).
counter_keys(keys, id, today, ok) ==
    LET daily == strftime(today)
        k1 == IF ok >= 1 THEN Touch(keys, id, daily) ELSE keys
        k2 == IF ok >= 2
              THEN Expire(k1, id, daily, today + DailyTtl \div SecondsPerDay)
              ELSE k1
        k3 == IF ok >= 3 THEN Touch(k2, id, Word("total")) ELSE k2
    IN k3

\* len(parts) >= 4 and parts[3] < cutoff_date
expired(key, cutoff_date) ==
    LET parts == split(key)
    IN Len(parts) >= 4 /\ str_lt(parts[4], cutoff_date)

cleanup_expired_data ==
    LET cutoff_date == strftime(ks.today - RetentionDays)
    IN /\ ks' = [ks EXCEPT
                   !.before = ks.keys,
                   !.keys = {k \in ks.keys : ~expired(k, cutoff_date)},
                   !.done = TRUE]
       /\ UNCHANGED <<now, kafkaUp, redisUp, mqttEngine, redis, registry,
                      lookups, cachedAt, tasks, nreq, faults, batch, last,
                      alertIn, alertOut, alertInfo, mqtt, conc, db, cal>>

CountStep ==
    /\ ks.n < MaxCounts
    /\ \E id \in DeviceIds, ok \in 0..5 :
          ks' = [ks EXCEPT
                   !.keys = counter_keys(ks.keys, id, ks.today, ok),
                   !.n = @ + 1,
                   !.done = FALSE]
    /\ UNCHANGED <<now, kafkaUp, redisUp, mqttEngine, redis, registry,
                   lookups, cachedAt, tasks, nreq, faults, batch, last,
                   alertIn, alertOut, alertInfo, mqtt, conc, db, cal>>

\* Midnight UTC; the server drops the keys whose time-to-live ended.
NextDay ==
    /\ ks.today < MaxCleanupDays
    /\ ks' = [ks EXCEPT
                !.today = @ + 1,
                !.keys = {k \in ks.keys :
                             k.ttl = NoExpiry \/ ks.today + 1 <= k.ttl},
                !.done = FALSE]
    /\ UNCHANGED <<now, kafkaUp, redisUp, mqttEngine, redis, registry,
                   lookups, cachedAt, tasks, nreq, faults, batch, last,
                   alertIn, alertOut, alertInfo, mqtt, conc, db, cal>>

CleanupNext == CountStep \/ NextDay \/ cleanup_expired_data

CleanupSpec == Init /\ [][CleanupNext]_vars

\* The daily counters of a key set that are older than 7 days.
OldDaily(keys, today) ==
    {k \in keys : k.suffix.date /\ k.suffix.day < today - RetentionDays}

(***************************************************************************)
(* C37 (as claimed): cleanup_expired_data deletes exactly the per-device   *)
(* daily counter keys older than 7 days: for every accepted device id,     *)
(* ids with ':' or a date-like piece included, it deletes no total key and *)
(* no daily counter of the last 7 days, and it leaves no daily counter     *)
(* older than 7 days.                                                      *)
(***************************************************************************)
C37_Claimed ==
    ks.done =>
        /\ ks.before \ ks.keys = OldDaily(ks.before, ks.today)
        /\ OldDaily(ks.keys, ks.today) = {}

(***************************************************************************)
(* C39: a cached device context is never older than 300 seconds.  A call   *)
(* of authenticate_device answered from the cache uses a record written    *)
(* less than 300 seconds before, and leaves the record and its             *)
(* time-to-live as they are.  A device whose record the directory has      *)
(* deleted is accepted only from the cache, and is refused once 300        *)
(* seconds have passed since the lookup that cached it.                    *)
(***************************************************************************)
C39_CacheNotExtended ==
    last.op = "authenticate" =>
        LET d == last.dev
            hit == last.info # NoDevice /\ ~last.looked
            fresh == last.cachedAt >= 0 /\ now - last.cachedAt < InfoTtl
        IN /\ hit => /\ fresh
                     /\ redis.info[d] = last.before.info[d]
                     /\ cachedAt[d] = last.cachedAt
           /\ (d \notin registry /\ last.info # NoDevice) => hit
           /\ (d \notin registry /\ ~fresh) =>
                  /\ last.info = NoDevice
                  /\ redis = last.before

\* A device deleted from the directory is still accepted from the cache 150
\* seconds after the lookup.
C39_Witness ==
    /\ last.op = "authenticate"
    /\ last.dev \notin registry
    /\ last.info = DeviceRecord(last.dev)
    /\ ~last.looked
    /\ last.cachedAt = 0
    /\ now = TickStep

\* 300 seconds or more after the lookup the cached record is gone: the call
\* asks the directory, which answers 404, and the device is refused.
C39_WitnessRefused ==
    /\ last.op = "authenticate"
    /\ last.dev \notin registry
    /\ last.cachedAt = 0
    /\ now >= InfoTtl
    /\ last.looked
    /\ last.status = 404
    /\ last.info = NoDevice

(***************************************************************************)
(* Concurrent authenticate_device calls.  Each call is a coroutine of the  *)
(* event loop: it runs until its next await, where another call may take   *)
(* over.  conc holds the calls started so far:                             *)
(*   dev     the device id of the call                                     *)
(*   pc      the await the call stands at: "read" (get_cached_device_info),*)
(*           "lookup" (client.get), "write" (cache_device_info), "seen"    *)
(*           (update_device_last_seen), or "done": it has returned         *)
(*   info    the context it holds; NoDevice once done: it returned None    *)
(*   looked  it issued a remote directory lookup                           *)
(*   peers   the calls that were in progress when it began                 *)
(***************************************************************************)
MaxFlights == 2     \* LookupSpec: authenticate_device calls

Flight(d, peers) ==
    [dev |-> d, pc |-> "read", info |-> NoDevice, looked |-> FALSE,
     peers |-> peers]

InFlight == {i \in 1..Len(conc) : conc[i].pc # "done"}

LookupFrame ==
    UNCHANGED <<now, kafkaUp, redisUp, mqttEngine, registry, tasks, batch,
                nreq, last, alertIn, alertOut, alertInfo, mqtt, db, cal, ks>>

\* A request handler calls authenticate_device(token, device_id).
auth_begin(d) ==
    /\ Len(conc) < MaxFlights
    /\ conc' = Append(conc, Flight(d, InFlight))
    /\ UNCHANGED <<redis, lookups, cachedAt, faults>>
    /\ LookupFrame

\* cached_info = await self.redis_service.get_cached_device_info(device_id)
auth_read(i, ok) ==
    LET d == conc[i].dev
        cached_info == get_cached_device_info(redis, d, ok)
    IN /\ conc[i].pc = "read"
       /\ faults + (1 - ok) <= MaxFaults
       /\ faults' = faults + (1 - ok)
       /\ conc' = [conc EXCEPT ![i] =
                     IF cached_info # NoDevice
                     THEN [@ EXCEPT !.info = cached_info, !.pc = "seen"]
                     ELSE [@ EXCEPT !.pc = "lookup"]]
       /\ UNCHANGED <<redis, lookups, cachedAt>>
       /\ LookupFrame

\* response = await client.get(.../devices/{device_id})
auth_lookup(i, reg) ==
    LET d == conc[i].dev
        found == RegistryStatus(d, [reg |-> reg]) = 200
    IN /\ conc[i].pc = "lookup"
       /\ faults + (IF reg = "fault" THEN 1 ELSE 0) <= MaxFaults
       /\ faults' = faults + (IF reg = "fault" THEN 1 ELSE 0)
       /\ lookups' = [lookups EXCEPT ![d] = @ + 1]
       /\ conc' = [conc EXCEPT ![i] =
                     IF found
                     THEN [@ EXCEPT !.looked = TRUE, !.info = DeviceRecord(d),
                                    !.pc = "write"]
                     ELSE [@ EXCEPT !.looked = TRUE, !.pc = "done"]]
       /\ UNCHANGED <<redis, cachedAt>>
       /\ LookupFrame

\* await self.redis_service.cache_device_info(device_id, device_info, ttl=300)
auth_write(i, ok) ==
    LET d == conc[i].dev
    IN /\ conc[i].pc = "write"
       /\ faults + (1 - ok) <= MaxFaults
       /\ faults' = faults + (1 - ok)
       /\ redis' = cache_device_info(redis, d, InfoTtl, ok)
       /\ cachedAt' = [cachedAt EXCEPT ![d] = IF redisUp /\ ok >= 1 THEN now ELSE @]
       /\ conc' = [conc EXCEPT ![i].pc = "seen"]
       /\ UNCHANGED lookups
       /\ LookupFrame

\* await self.redis_service.update_device_last_seen(device_id); return
auth_seen(i, ok) ==
    LET d == conc[i].dev
    IN /\ conc[i].pc = "seen"
       /\ faults + (IF ok < 3 THEN 1 ELSE 0) <= MaxFaults
       /\ faults' = faults + (IF ok < 3 THEN 1 ELSE 0)
       /\ redis' = update_device_last_seen(redis, d, ok)
       /\ conc' = [conc EXCEPT ![i].pc = "done"]
       /\ UNCHANGED <<lookups, cachedAt>>
       /\ LookupFrame

AuthBeginStep == \E d \in Devices : auth_begin(d)
AuthReadStep == \E i \in 1..Len(conc) : \E ok \in 0..1 : auth_read(i, ok)
AuthLookupStep ==
    \E i \in 1..Len(conc) : \E reg \in {"ok", "fault"} : auth_lookup(i, reg)
AuthWriteStep == \E i \in 1..Len(conc) : \E ok \in 0..1 : auth_write(i, ok)
AuthSeenStep == \E i \in 1..Len(conc) : \E ok \in 0..3 : auth_seen(i, ok)

LookupNext ==
    \/ AuthBeginStep
    \/ AuthReadStep
    \/ AuthLookupStep
    \/ AuthWriteStep
    \/ AuthSeenStep
    \/ Unregister

LookupSpec == Init /\ [][LookupNext]_vars

\* Two calls for the same device, the second begun while the first was in
\* progress, have both returned.
Overlapped(i, j) ==
    /\ i \in conc[j].peers
    /\ conc[i].dev = conc[j].dev
    /\ conc[i].pc = "done"
    /\ conc[j].pc = "done"

(***************************************************************************)
(* C38 (as claimed): concurrent authenticate_device calls for the same     *)
(* uncached device id issue at most one remote directory lookup, and all   *)
(* return the same context.  Stated for behaviours in which no store       *)
(* command and no directory request has failed.                            *)
(***************************************************************************)
C38_Claimed ==
    faults = 0 =>
        \A j \in 1..Len(conc) : \A i \in 1..(j - 1) :
            Overlapped(i, j) =>
                /\ ~(conc[i].looked /\ conc[j].looked)
                /\ conc[i].info = conc[j].info

====
